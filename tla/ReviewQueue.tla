---------------------------- MODULE ReviewQueue ----------------------------
(***************************************************************************)
(* The review service of one project with several task branches: the       *)
(* commit-reviewer process, which reviews one branch at a time and queues  *)
(* the rest, state.json, which it shares with the agent-review process,    *)
(* and the merge endpoint of the latter.                                   *)
(*                                                                         *)
(* The reviewer is one thread that gives way at every await: between the   *)
(* call of reviewProject, the answer of git that names a commit, the       *)
(* verdict, and the end of the clean-up, calls for other branches and      *)
(* merges run.  The queue and the guard are in memory and die with the     *)
(* process; the verdicts, inProgress and queued are in the file.           *)
(***************************************************************************)
EXTENDS Integers, Sequences

CONSTANTS
    Branches,   \* the task branches of the project
    None,       \* no branch
    MaxCommits, \* bound: pieces of work committed, on all branches
    MaxRebases, \* bound: rebases, which make a new commit each
    MaxAsks,    \* bound: reviews the gates ask for
    MaxFaults   \* bound: deaths of the reviewer's process, and writes of
                \* state.json that wait for its lock in vain

ASSUME ConstantsAssumption ==
    /\ None \notin Branches
    /\ MaxCommits \in Nat /\ MaxRebases \in Nat
    /\ MaxAsks \in Nat /\ MaxFaults \in Nat

VARIABLES
    \* git: commits are numbered as they are made, 0 is what all forked from
    made,       \* commits made so far
    rebased,    \* those of them that a rebase made
    tip,        \* the newest commit of each branch
    live,       \* the newest commit of each branch that main has
    behind,     \* branches that main has left behind
    dirty,      \* branches whose workspace has uncommitted work
    \* state.json, this project's part
    record,     \* branches[b]: the last verdict of each branch
    latest,     \* the branch the top level of the record is about
    progress,   \* inProgress
    shown,      \* queued
    \* the reviewer's process
    up,         \* it runs
    busy,       \* inProgressProjects has the project
    queue,      \* pendingReviews
    asked,      \* calls of reviewProject that wait for git
    found,      \* calls that git has answered with a commit
    review,     \* the calls past the guard
    \* the merge endpoint
    merging,    \* merges that passed its gate, up to the clearing of the verdict
    \* history and bounds
    ready,      \* commits that were ever called READY
    merged,     \* commits main was fast-forwarded to
    asks, crashes, failed

gitVars    == <<made, rebased, tip, live, behind, dirty>>
fileVars   == <<record, latest, progress, shown>>
memVars    == <<busy, queue, asked, found, review>>
boundVars  == <<asks, crashes, failed>>
vars == <<made, rebased, tip, live, behind, dirty, record, latest, progress,
          shown, up, busy, queue, asked, found, review, merging, ready, merged, asks,
          crashes, failed>>

Tips     == 0..(MaxCommits + MaxRebases)
Commit   == [branch : Branches, sha : Tips]
NoCommit == [branch |-> None, sha |-> 0]
Verdicts == {"NONE", "READY", "FIX", "HARNESS"}
Records  == [Branches -> [sha : Tips, verdict : Verdicts]]
NoRecord == [sha |-> 0, verdict |-> "NONE"]
MaybeBranch == Branches \union {None}

Unmerged(b) == tip[b] # live[b]
Tip(b) == [branch |-> b, sha |-> tip[b]]

-----------------------------------------------------------------------------
(* The tasks, as far as git shows them *)

\* A new commit at the tip of b.
Mint(b) == made' = made + 1 /\ tip' = [tip EXCEPT ![b] = made']

StartWriting(b) ==
    /\ b \notin dirty /\ made - rebased < MaxCommits /\ dirty' = dirty \union {b}
    /\ UNCHANGED <<made, rebased, tip, live, behind, fileVars, up, memVars,
                   merging, ready, merged, boundVars>>

\* The gate commits, and rebases onto main unless it has to leave that out.
CommitWork(b) ==
    /\ b \in dirty /\ dirty' = dirty \ {b}
    /\ made - rebased < MaxCommits /\ Mint(b)
    /\ behind' \in {behind, behind \ {b}}
    /\ UNCHANGED <<rebased, live, fileVars, up, memVars, merging, ready, merged,
                   boundVars>>

Rebase(b) ==
    /\ b \in behind \ dirty /\ Unmerged(b) /\ behind' = behind \ {b}
    /\ rebased < MaxRebases /\ rebased' = rebased + 1 /\ Mint(b)
    /\ UNCHANGED <<live, dirty, fileVars, up, memVars, merging, ready, merged,
                   boundVars>>

-----------------------------------------------------------------------------
(* state.json *)

\* updateJsonSync throws when it cannot have the lock within its wait.
WriteFails == crashes + failed < MaxFaults /\ failed' = failed + 1

\* persistQueue writes the queue as it is in memory now.
Persist(q) == shown' = q /\ UNCHANGED failed

\* Verdict v for commit c, by the write of a finished review: everything at the
\* top level but the branches is replaced.
Record(c, v) ==
    /\ record' = [record EXCEPT ![c.branch] = [sha |-> c.sha, verdict |-> v]]
    /\ latest' = c.branch /\ progress' = NoCommit

-----------------------------------------------------------------------------
(* reviewProject *)

In(b, q) == \E i \in 1..Len(q) : q[i] = b

\* Mutant of Enqueued: a branch that is asked for twice is queued twice.
EnqueuedTwice(b) == Append(queue, b)

Enqueued(b) == IF In(b, queue) THEN queue ELSE Append(queue, b)

\* The commits that a record with one of these verdicts is about.
Judged(vs) == {c \in Commit : /\ record[c.branch].sha = c.sha
                              /\ record[c.branch].verdict \in vs}

\* detectNewCommit is given the records as they are when reviewProject is called:
\* a request looks at those of its branch, and a harness failure is no review.
Call(b) ==
    LET ofInterest == {c \in Commit : b \in {None, c.branch}}
    IN asked' = asked \union
           {[req  |-> b, done |-> Judged({"READY", "FIX"}) \intersect ofInterest,
             lame |-> IF b = None THEN Judged({"HARNESS"}) ELSE {}]}

\* The timer, every two minutes, a few git commands apart from the last one.
Poll ==
    /\ up /\ ~ \E c \in asked \union found : c.req = None
    /\ Call(None)
    /\ UNCHANGED <<gitVars, fileVars, up, busy, queue, found, review, merging,
                   ready, merged, boundVars>>

\* POST /check by the gate of a task that has committed.
Ask(b) ==
    /\ up /\ asks < MaxAsks /\ asks' = asks + 1
    /\ Unmerged(b) /\ b \notin dirty
    /\ \/ /\ ~busy /\ Call(b)
          /\ UNCHANGED <<fileVars, busy, queue, failed>>
       \/ /\ busy /\ queue' = Enqueued(b) /\ Persist(queue')
          /\ UNCHANGED <<record, latest, progress, busy, asked>>
    /\ UNCHANGED <<gitVars, up, found, review, merging, ready, merged, crashes>>

\* What the poll looks at: of the branches main does not have, the newest.
NewestUnmerged(b) == \A c \in Branches : Unmerged(c) => tip[c] <= tip[b]

Unit(c, b) == /\ IF c.req # None THEN b = c.req ELSE NewestUnmerged(b)
              /\ Unmerged(b) /\ b \notin dirty /\ Tip(b) \notin c.done

Detects(c) ==
    /\ c \in asked /\ asked' = asked \ {c}
    /\ \E b \in Branches :
         /\ Unit(c, b)
         /\ found' = found \union {[req |-> c.req, unit |-> Tip(b)]}
    /\ UNCHANGED <<gitVars, fileVars, up, busy, queue, review, merging, ready,
                   merged, boundVars>>

\* Nothing to review, or the poll lets a harness that failed rest for a while.
DetectsNothing(c) ==
    /\ c \in asked /\ asked' = asked \ {c}
    /\ \A b \in Branches : Unit(c, b) => Tip(b) \in c.lame
    /\ UNCHANGED <<gitVars, fileVars, up, busy, queue, found, review, merging,
                   ready, merged, boundVars>>

\* Mutant of MayStart: the guard was looked at before git was asked.
MayStartUnlooked == TRUE

MayStart == ~busy

\* The guard is taken and inProgress written, in this order and outside the try
\* of the review: a write that fails ends the call and leaves the guard.
StartReview(f) ==
    /\ f \in found /\ MayStart
    /\ found' = found \ {f} /\ busy' = TRUE
    /\ \/ /\ progress' = f.unit
          /\ review' = review \union {[unit |-> f.unit, at |-> "checks"]}
          /\ UNCHANGED failed
       \/ WriteFails /\ UNCHANGED <<progress, review>>
    /\ UNCHANGED <<gitVars, record, latest, shown, up, queue, asked, merging,
                   ready, merged, asks, crashes>>

\* A request that lost the race to another review waits; the poll's does not.
YieldToReview(f) ==
    /\ f \in found /\ ~MayStart /\ found' = found \ {f}
    /\ \/ f.req = None /\ UNCHANGED <<queue, shown, failed>>
       \/ f.req # None /\ queue' = Enqueued(f.req) /\ Persist(queue')
       \/ f.req # None /\ queue' = Enqueued(f.req) /\ WriteFails /\ UNCHANGED shown
    /\ UNCHANGED <<gitVars, record, latest, progress, up, busy, asked, review,
                   merging, ready, merged, asks, crashes>>

Advance(r, at) == review' = (review \ {r}) \union {[r EXCEPT !.at = at]}

\* The review ends in a verdict, and the write of it drops `queued` from the
\* file until the queue is persisted again.
RecordVerdict(r) ==
    /\ r \in review /\ r.at = "checks" /\ Advance(r, "cleanup")
    /\ \E v \in Verdicts \ {"NONE"} :
         /\ Record(r.unit, v)
         /\ ready' = IF v = "READY" THEN ready \union {r.unit} ELSE ready
    /\ shown' = <<>>
    /\ UNCHANGED <<gitVars, up, busy, queue, asked, found, merging, merged,
                   boundVars>>

\* An internal error, a write that failed among them: recorded as the harness's
\* if inProgress is still about this commit and the lock can be had.
ReviewErrs(r) ==
    /\ r \in review /\ r.at = "checks" /\ Advance(r, "cleanup")
    /\ \/ progress = r.unit /\ Record(r.unit, "HARNESS") /\ UNCHANGED failed
       \/ progress # r.unit /\ UNCHANGED <<record, latest, progress, failed>>
       \/ WriteFails /\ UNCHANGED <<record, latest, progress>>
    /\ UNCHANGED <<gitVars, shown, up, busy, queue, asked, found, merging,
                   ready, merged, asks, crashes>>

\* Mutant of Shift: the shortened queue is not written.
ShiftUnwritten == /\ queue' = Tail(queue) /\ Call(Head(queue))
                  /\ UNCHANGED <<shown, failed>>

\* runNextQueued: the first of the queue is called for, once the file says so.
Shift ==
    /\ queue' = Tail(queue)
    /\ \/ Persist(queue') /\ Call(Head(queue))
       \/ WriteFails /\ UNCHANGED <<shown, asked>>

\* The finally of reviewProject, when the worktree is gone.
FinishReview(r) ==
    /\ r \in review /\ r.at = "cleanup"
    /\ review' = review \ {r} /\ busy' = FALSE
    /\ \/ queue # <<>> /\ Shift
       \/ queue = <<>> /\ UNCHANGED <<queue, asked, shown, failed>>
    /\ UNCHANGED <<gitVars, record, latest, progress, up, found, merging, ready,
                   merged, asks, crashes>>

\* The process dies (killed, or the lock fails a request that must queue).
Crash ==
    /\ up /\ up' = FALSE
    /\ \/ crashes + failed < MaxFaults /\ crashes' = crashes + 1 /\ UNCHANGED <<asks, failed>>
       \/ busy /\ asks < MaxAsks /\ asks' = asks + 1 /\ WriteFails /\ UNCHANGED crashes
    /\ busy' = FALSE /\ queue' = <<>> /\ asked' = {} /\ found' = {} /\ review' = {}
    /\ UNCHANGED <<gitVars, fileVars, merging, ready, merged>>

\* Mutant of Sweep: what the last process left in the file stays.
SweepNothing == UNCHANGED <<progress, shown>>

\* main() drops what the last process left behind.
Sweep == progress' = NoCommit /\ shown' = <<>>

Restart ==
    /\ ~up /\ up' = TRUE /\ Sweep
    /\ UNCHANGED <<gitVars, record, latest, memVars, merging, ready, merged,
                   boundVars>>

-----------------------------------------------------------------------------
(* The merge endpoint of agent-review, asked by the gate without force *)

MergeGate(b) ==
    /\ Unmerged(b) /\ ~ \E m \in merging : m.unit.branch = b
    /\ record[b].sha = tip[b] /\ record[b].verdict = "READY"
    /\ progress # Tip(b) /\ b \notin behind
    /\ merging' = merging \union {[unit |-> Tip(b), at |-> "checked"]}
    /\ UNCHANGED <<gitVars, fileVars, up, memVars, ready, merged, boundVars>>

\* Mutant of MergedSha: the branch is merged, whatever it points to by now.
MergedBranch(m) == tip[m.unit.branch]

MergedSha(m) == m.unit.sha

\* git merge --ff-only, on the commit that was checked: every other branch has
\* to be rebased from here on.
FastForward(m) ==
    /\ m \in merging /\ m.at = "checked" /\ m.unit.branch \notin behind
    /\ LET b == m.unit.branch IN
         /\ live' = [live EXCEPT ![b] = MergedSha(m)]
         /\ merged' = merged \union {[branch |-> b, sha |-> MergedSha(m)]}
         /\ behind' = behind \union (Branches \ {b})
    /\ merging' = (merging \ {m}) \union {[m EXCEPT !.at = "merged"]}
    /\ UNCHANGED <<made, rebased, tip, dirty, fileVars, up, memVars, ready,
                   boundVars>>

MergeRefused(m) ==
    /\ m \in merging /\ m.at = "checked" /\ m.unit.branch \in behind
    /\ merging' = merging \ {m}
    /\ UNCHANGED <<gitVars, fileVars, up, memVars, ready, merged, boundVars>>

\* clearReviewState: the merged branch's record goes; if the top level was about
\* it, or no branch has a record left, nothing but the other records stays.
ClearReviewState(m) ==
    /\ m \in merging /\ m.at = "merged" /\ merging' = merging \ {m}
    /\ LET b == m.unit.branch
           rest == [record EXCEPT ![b] = NoRecord]
           toIdle == latest = b \/ \A c \in Branches : rest[c] = NoRecord IN
       \/ /\ record' = rest /\ UNCHANGED failed
          /\ \/ /\ toIdle
                /\ latest' = None /\ progress' = NoCommit /\ shown' = <<>>
             \/ ~toIdle /\ UNCHANGED <<latest, progress, shown>>
       \/ WriteFails /\ UNCHANGED fileVars
    /\ UNCHANGED <<gitVars, up, memVars, ready, merged, asks, crashes>>

-----------------------------------------------------------------------------
Init ==
    /\ tip = [b \in Branches |-> 0] /\ live = [b \in Branches |-> 0]
    /\ made = 0 /\ behind = {} /\ dirty = {}
    /\ record = [b \in Branches |-> NoRecord] /\ latest = None
    /\ progress = NoCommit /\ shown = <<>>
    /\ up = TRUE /\ busy = FALSE /\ queue = <<>>
    /\ asked = {} /\ found = {} /\ review = {} /\ merging = {}
    /\ ready = {} /\ merged = {}
    /\ rebased = 0 /\ asks = 0 /\ crashes = 0 /\ failed = 0

Tasks == \E b \in Branches : StartWriting(b) \/ CommitWork(b) \/ Rebase(b) \/ Ask(b)

\* The continuation of a call for b (of the poll's, for None), and of a review.
Continue(b) == \/ \E c \in asked : c.req = b /\ (Detects(c) \/ DetectsNothing(c))
               \/ \E f \in found : f.req = b /\ (StartReview(f) \/ YieldToReview(f))

Review == \E r \in review : RecordVerdict(r) \/ ReviewErrs(r) \/ FinishReview(r)

Reviewer == Review \/ \E b \in MaybeBranch : Continue(b)

Merger == \/ \E b \in Branches : MergeGate(b)
          \/ \E m \in merging : \/ FastForward(m) \/ MergeRefused(m)
                                \/ ClearReviewState(m)

Next == Tasks \/ Reviewer \/ Merger \/ Poll \/ Crash \/ Restart

Spec == Init /\ [][Next]_vars

\* The event loop runs what is ready, a review ends (its checks and its model
\* call have timeouts), the timer fires, and pm2 restarts a dead process.
FairSpec == /\ Spec /\ WF_vars(Review) /\ WF_vars(Poll) /\ WF_vars(Restart)
            /\ \A b \in MaybeBranch : WF_vars(Continue(b))

-----------------------------------------------------------------------------
(* Properties *)

\* Every variable stays in its domain; the queue holds a branch once
\* (queueReview's includes), so it is never longer than the project has tasks.
TypeOK ==
    /\ made \in Tips /\ tip \in [Branches -> Tips] /\ live \in [Branches -> Tips]
    /\ behind \subseteq Branches /\ dirty \subseteq Branches
    /\ record \in Records /\ latest \in MaybeBranch
    /\ progress \in Commit \union {NoCommit}
    /\ up \in BOOLEAN /\ busy \in BOOLEAN
    /\ \A s \in {queue, shown} :
         /\ s \in Seq(Branches)
         /\ \A i, j \in 1..Len(s) : s[i] = s[j] => i = j
    /\ asked \subseteq [req : MaybeBranch, done : SUBSET Commit, lame : SUBSET Commit]
    /\ found \subseteq [req : MaybeBranch, unit : Commit]
    /\ review \subseteq [unit : Commit, at : {"checks", "cleanup"}]
    /\ merging \subseteq [unit : Commit, at : {"checked", "merged"}]
    /\ ready \subseteq Commit /\ merged \subseteq Commit
    /\ rebased \in 0..MaxRebases /\ asks \in 0..MaxAsks
    /\ crashes \in Nat /\ failed \in Nat
    /\ crashes + failed <= MaxFaults

\* The timer, the gates and the queue call reviewProject at any time and each
\* call waits for git before it looks at the guard: still one review at a time.
OneReviewAtATime == \A r, s \in review : r = s

\* What main is fast-forwarded to was called READY, although the branch may get
\* commits, and the record another verdict, between the endpoint's gate and its
\* merge (audit R6).
MergedWasReady == merged \subseteq ready

\* A gate that reads inProgress waits for a review that really runs: no crash
\* and no error leaves a mark behind (a write that timed out may).
ProgressIsReal ==
    up /\ failed = 0 /\ progress # NoCommit
        => \E r \in review : r.unit = progress /\ r.at = "checks"

\* A gate that finds its branch in `queued` waits for its turn, and that branch
\* is queued: what the file shows is the queue in memory, or nothing at all.
ShownIsQueued == up /\ failed = 0 /\ shown # <<>> => shown = queue

=============================================================================
