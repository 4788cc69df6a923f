------------------------------ MODULE TaskGate ------------------------------
(***************************************************************************)
(* One Tektonix task from its first work pass to its end: the outer graph  *)
(* work -> verify_and_ship -> (work | end), the checkpoint it leaves after *)
(* every node, the task branch agent/<id>, the reviewer's record of that   *)
(* branch, the merge endpoint, and everybody who restarts a resting task:  *)
(* the operator (lifecycle.py), the supervisor and the startup resume.     *)
(*                                                                         *)
(* Between two awaits of the gate anything else may happen: main moves,    *)
(* the reviewer records a verdict, the server dies.  Only the checkpoint,  *)
(* git and the reviewer's record survive that; sha, appr, retry and judged *)
(* are the locals of one execution of the gate and do not.  A question the *)
(* gate asks of git may go unanswered: it then reads the workspace as      *)
(* clean, or the branch as having nothing of its own.                      *)
(***************************************************************************)
EXTENDS Integers

CONSTANTS
    MaxEdits,       \* bound: pieces of new work, the agent's and the operator's
    MaxLive,        \* bound: times somebody else moves main
    MaxCrash,       \* bound: server restarts and Stop clicks
    MaxOps,         \* bound: operator and supervisor interventions
    MaxIter,        \* max_iterations of a new task
    Grant,          \* iterations every resume adds (the code's 40)
    RequireReview,  \* require_merge_review: the operator has the final look
    ShipMode,       \* "push" fast-forwards main, "pr" opens a pull request
    HasAlert,       \* the task was made for a Dependabot alert
    Benchmark       \* the project is a benchmark: nobody to hand a dispute to

ASSUME ConstantsAssumption ==
    /\ MaxEdits \in Nat /\ MaxLive \in Nat /\ MaxCrash \in Nat
    /\ MaxOps \in Nat /\ MaxIter \in Nat /\ Grant \in Nat
    /\ RequireReview \in BOOLEAN /\ HasAlert \in BOOLEAN
    /\ ShipMode \in {"push", "pr"} /\ Benchmark \in BOOLEAN
    /\ Benchmark => ShipMode = "push"

VARIABLES
    \* git
    patch,      \* the diff of main..commit, by name; a rebase may keep it
    used,       \* commit ids minted so far
    head,       \* tip of the task branch, Base when it has nothing of its own
    own,        \* the task's commits reachable from head
    dirty,      \* uncommitted work in the task's workspace
    insync,     \* the branch forks from the present tip of main
    landed,     \* task commits that are ancestors of main
    \* the reviewer
    rec,        \* its record of this branch
    reviewing,  \* the commit it is reviewing now
    \* the task
    cp,         \* the checkpointed AgentState, and the graph's next node
    status,     \* the Store's status
    pc,         \* where the driver is, "off" when nothing drives the task
    sha,        \* local of the gate: the commit it is shipping
    appr,       \* local of the gate: the commit it holds an approval for
    retry,      \* local of the gate: the harness failure it asks about again
    judged,     \* local of the gate: the verdict it ships the commit with
    panel,      \* the commit open in the operator's diff panel
    \* history
    offTip,     \* this pass ships a commit that is not the tip of the branch
    unseen,     \* git did not answer, and the gate took work there is for none
    blessed,    \* patches the operator approved while looking at them, since
                \* the task was last sent back to work
    ready,      \* commits the reviewer has ever called READY
    merged,     \* tips the merge endpoint fast-forwarded main to
    pushed,     \* tips pushed as a pull request
    deployed,   \* the restart endpoint succeeded after a merge
    episode,    \* outcome of the last episode written
    \* how much of each bound is spent
    edited, moved, crashed, ops

gitVars    == <<patch, used, head, own, dirty, insync, landed>>
recVars    == <<rec, reviewing>>
localVars  == <<sha, appr, retry, judged, offTip>>
shipVars   == <<merged, pushed, deployed, unseen>>
boundVars  == <<edited, moved, crashed, ops>>
vars == <<patch, used, head, own, dirty, insync, landed, rec, reviewing, cp,
          status, pc, sha, appr, retry, judged, offTip, panel, unseen, blessed,
          ready, merged, pushed, deployed, episode, edited, moved, crashed, ops>>

\* Commit ids: a commit takes a piece of work, a rebase a move of main.
N       == MaxEdits + MaxLive
NoSha   == -1           \* None where the code holds a sha
Base    == 0            \* the tip of main, whatever it is now
Commits == 1..N
MaybeSha == -1..N

Verdicts  == {"NONE", "READY", "FIX", "BREAKER", "HARNESS"}
Rejecting == {"FIX", "BREAKER", "HARNESS"}
Whys      == {"none", "gateInfra", "workInfra", "other"}
Interior  == {"gate", "rebase", "ask", "review", "ci", "ship", "deploy", "diverged"}
Places    == {"off", "starting", "queued", "next", "work"} \union Interior
Episodes  == {"none", "escalated", "shipped", "done_no_changes"}
Statuses  == {"queued", "running", "stopped", "done", "escalated", "awaiting_approval",
              "awaiting_merge"}

Checkpoints ==
    [next : {"work", "verify", "end"}, escalated : BOOLEAN, why : Whys,
     parked : MaybeSha, approved : MaybeSha, committed : MaybeSha,
     edits : MaybeSha, feedback : BOOLEAN, paused : BOOLEAN,
     decision : BOOLEAN, nodiff : 0..1, left : Int, seen : MaybeSha,
     verdict : Verdicts, retried : MaybeSha]

-----------------------------------------------------------------------------
(* Reading the state *)

\* Mutant of InLive: a commit that merged is not recognised on main.
InLiveForgetsMerges(s) == s = Base

\* git merge-base --is-ancestor: main holds every tip of main there ever was.
InLive(s) == s = Base \/ s \in landed

\* Commits main does not have, on the branch that is checked out.
Ahead == ~InLive(head)

\* Mutant of Pending: only the gate's own record counts, not the branch.
PendingByRecord == IF cp.committed # NoSha THEN head ELSE NoSha

\* The commit a pass without a diff is about: HEAD, when the gate's own record
\* or the branch says there is one.
Pending == IF cp.committed # NoSha \/ Ahead THEN head ELSE NoSha

\* Mutant of Landed: a rebased commit is not recognised.
LandedAsItself(s) == s # NoSha /\ InLive(s)

\* commit_landed: an ancestor of main, or the same patch under another id.
Landed(s) == s # NoSha /\ (InLive(s) \/ \E c \in landed : patch[c] = patch[s])

PhaseOf(c) == IF c.escalated THEN "escalated"
              ELSE IF c.paused THEN "awaiting_approval"
              ELSE IF c.parked # NoSha THEN "awaiting_merge"
              ELSE status

FinalStatus(c) == IF c.escalated THEN "escalated"
                  ELSE IF c.paused THEN "awaiting_approval"
                  ELSE IF c.parked # NoSha THEN "awaiting_merge"
                  ELSE "done"

\* Mutant of Route: an approval goes before the feedback (2026-08-26).
RouteApprovalFirst(c) ==
    IF c.escalated \/ c.paused \/ c.parked # NoSha THEN "end"
    ELSE IF c.approved # NoSha /\ c.committed # NoSha THEN "verify"
    ELSE IF c.feedback THEN "work" ELSE "end"

\* _route_after_verify: what the graph runs after the gate, and after every
\* patch applied as_node="verify_and_ship".
Route(c) ==
    IF c.escalated \/ c.paused \/ c.parked # NoSha THEN "end"
    ELSE IF c.feedback THEN "work"
    ELSE IF c.approved # NoSha /\ c.committed # NoSha THEN "verify"
    ELSE "end"

\* Mutant of Terminal: a parked task counts as ended (before 2026-09-22).
TerminalWhenParked(c) == c.escalated \/ (~c.paused /\ ~c.feedback)

\* _is_terminal: the pass ended the task, so an episode records how.
Terminal(c) ==
    c.escalated \/ (~c.paused /\ c.parked = NoSha /\ ~c.feedback)

-----------------------------------------------------------------------------
(* What a node returns, merged into the checkpoint *)

Escalate(c, w) == [c EXCEPT !.escalated = TRUE, !.why = w]
\* Mutant of LoopBack: the pass is not counted.
LoopBackUncounted(c) == [c EXCEPT !.feedback = TRUE, !.nodiff = 0]
LoopBack(c)    == [c EXCEPT !.left = @ - 1, !.feedback = TRUE, !.nodiff = 0]

\* The node's result is checkpointed and the graph moves on; outcome is what
\* the episode says when the result is terminal and nothing escalated.
Finish(c, outcome) ==
    /\ cp' = [c EXCEPT !.next = Route(c)]
    /\ episode' = IF c.escalated THEN "escalated"
                  ELSE IF Terminal(c) THEN outcome ELSE episode
    /\ pc' = "next"
    /\ sha' = NoSha /\ appr' = NoSha /\ retry' = NoSha
    /\ judged' = "NONE" /\ offTip' = FALSE

\* A pass of the gate that ran to a result has applied the operator's edits,
\* if it was given any, and remembers which harness failure it asked about.
Done(c, outcome) ==
    Finish([c EXCEPT !.edits = NoSha,
                     !.retried = IF retry # NoSha THEN retry ELSE @], outcome)

\* The catch-all around the gate: what the checkpoint held stays, and the error
\* text may or may not be one the supervisor knows.
Throw == \E w \in {"gateInfra", "other"} :
             Finish([Escalate(cp, w) EXCEPT !.edits = NoSha], episode)

\* The task branch on a new tip c that carries patch p.
Mint(c, p) ==
    /\ used < N /\ c = used + 1 /\ p \in {c, patch[head]}
    /\ used' = c /\ head' = c /\ patch' = [patch EXCEPT ![c] = p]

\* git rebase onto the present tip of main.  Every id changes, the diff only
\* when main touched the lines around it; a branch main already has moves to
\* main's tip, its diff empty before and after.
Rebase(c, p) ==
    /\ IF Ahead THEN Mint(c, p) /\ own' = {c}
       ELSE /\ c = Base /\ p = patch[head] /\ head' = Base /\ own' = {}
            /\ UNCHANGED <<patch, used>>
    /\ insync' = TRUE

OntoBase == head' = Base /\ own' = {} /\ insync' = TRUE

-----------------------------------------------------------------------------
(* work_node *)

AtWork == pc = "next" /\ cp.next = "work"

\* workspaces.ensure raised: the pass returns before anything is consumed.
WorkspaceUnavailable ==
    /\ AtWork
    /\ cp' = [Escalate(cp, "other") EXCEPT !.next = "verify"]
    /\ UNCHANGED <<gitVars, recVars, shipVars, boundVars, localVars, status,
                   pc, panel, blessed, ready, episode>>

\* restore_task_workspace: uncommitted work is left alone, a branch whose base
\* moved is rebased, or reset onto main when that conflicts (the old tip is
\* kept as a backup branch).  A paused turn is resumed exactly where it is, and
\* a restore that fails is printed and worked past.
RestoreTaskWorkspace ==
    \/ UNCHANGED gitVars
    \/ /\ ~cp.decision /\ ~dirty /\ ~insync
       /\ UNCHANGED <<dirty, landed>>
       /\ \/ \E c, p \in 0..N : Rebase(c, p)
          \/ Ahead /\ OntoBase /\ UNCHANGED <<patch, used>>

StartWork ==
    /\ AtWork /\ RestoreTaskWorkspace /\ pc' = "work"
    /\ UNCHANGED <<recVars, shipVars, boundVars, localVars, status, cp, panel,
                   blessed, ready, episode>>

AgentEdits ==
    /\ pc = "work" /\ ~dirty /\ edited < MaxEdits
    /\ dirty' = TRUE /\ edited' = edited + 1
    /\ UNCHANGED <<patch, used, head, own, insync, landed, recVars, shipVars,
                   localVars, status, cp, pc, panel, blessed, ready, episode,
                   moved, crashed, ops>>

\* The coder runs `git commit` itself instead of leaving it to the gate.
AgentCommits ==
    /\ pc = "work" /\ dirty
    /\ \E c \in Commits : Mint(c, c) /\ own' = own \union {c}
    /\ dirty' = FALSE
    /\ UNCHANGED <<insync, landed, recVars, shipVars, boundVars, localVars,
                   status, cp, pc, panel, blessed, ready, episode>>

\* The pass ends: normally, paused on an approval interrupt, escalated by a
\* dropped model connection or for good, or (the cost backstop) the last two.
WorkEnds ==
    /\ pc = "work"
    /\ \E w \in {"none", "workInfra", "other"}, p \in BOOLEAN :
         /\ p => w # "workInfra"
         /\ cp' = [cp EXCEPT !.escalated = (w # "none"), !.why = w,
                             !.paused = p, !.feedback = FALSE,
                             !.decision = FALSE, !.next = "verify"]
    /\ pc' = "next"
    /\ UNCHANGED <<gitVars, recVars, shipVars, boundVars, localVars, status,
                   panel, blessed, ready, episode>>

-----------------------------------------------------------------------------
(* verify_and_ship_node up to the review *)

AtGate == pc = "next" /\ cp.next = "verify"

\* Everything the gate returns before it looks at the code.
GateDeclines ==
    /\ AtGate
    /\ \/ (cp.escalated \/ cp.paused) /\ Finish(cp, episode)
       \/ /\ ~cp.escalated /\ ~cp.paused
          /\ \/ cp.left <= 0 /\ Finish(Escalate(cp, "other"), episode)
             \/ cp.left > 0 /\ HasAlert
                /\ Finish([cp EXCEPT !.committed = NoSha, !.parked = NoSha,
                                     !.approved = NoSha], "shipped")
             \/ cp.left > 0 /\ Finish(Escalate(cp, "other"), episode)
    /\ UNCHANGED <<gitVars, recVars, shipVars, boundVars, status, panel,
                   blessed, ready>>

\* _apply_operator_edits refuses: the branch moved after the editor was opened,
\* or a path is not the operator's to write -- maybe after others were written.
GateRefusesEdits ==
    /\ AtGate /\ ~cp.escalated /\ ~cp.paused /\ cp.left > 0
    /\ cp.edits # NoSha
    /\ Finish([Escalate(cp, "other") EXCEPT !.edits = NoSha], episode)
    /\ dirty' \in {dirty, dirty \/ head = cp.edits}
    /\ UNCHANGED <<patch, used, head, own, insync, landed, recVars, shipVars,
                   boundVars, status, panel, blessed, ready>>

\* The gate is open: the operator's edits, if any, become uncommitted work.
GateOpens ==
    /\ AtGate /\ ~cp.escalated /\ ~cp.paused /\ cp.left > 0
    /\ cp.edits # NoSha => head = cp.edits
    /\ dirty' = (dirty \/ cp.edits # NoSha)
    /\ pc' = "gate" /\ appr' = cp.approved
    /\ UNCHANGED <<patch, used, head, own, insync, landed, recVars, shipVars,
                   boundVars, sha, retry, judged, offTip, status, cp, panel, blessed,
                   ready, episode>>

\* The gate turns to one commit; review of it is asked for next.
TurnTo(s) == sha' = s /\ pc' = "ask"

\* The gate saw all there is, or what it took for nothing was d.
Overlooks(d) == unseen' = d /\ UNCHANGED <<merged, pushed, deployed>>

\* The operator approved the outstanding commit and git says that nothing is
\* newer.  It may not answer, so that the other ways on are open to an approved
\* commit too: its checks run again.
Approved == /\ cp.approved # NoSha /\ cp.approved = cp.committed
            /\ ~cp.feedback /\ ~dirty

FastPath ==
    /\ pc = "gate" /\ Approved /\ TurnTo(cp.approved)
    /\ offTip' = (cp.approved # head) /\ Overlooks(FALSE)
    /\ UNCHANGED <<gitVars, recVars, boundVars, appr, retry, judged, status,
                   cp, panel, blessed, ready, episode>>

ChecksFail ==
    /\ pc = "gate" /\ Done(LoopBack(cp), episode)
    /\ UNCHANGED <<gitVars, recVars, shipVars, boundVars, status, panel,
                   blessed, ready>>

\* From here to NoDiff the gate sees no diff.  There may be one all the same:
\* git_diff is empty when git fails.

\* Main has the commit this pass is about: it must have merged.
ConcludeInLive ==
    /\ pc = "gate" /\ Pending # NoSha /\ InLive(Pending)
    /\ Done([cp EXCEPT !.committed = NoSha, !.parked = NoSha,
                       !.approved = NoSha, !.seen = Pending,
                       !.verdict = "READY"], "shipped")
    /\ UNCHANGED <<gitVars, recVars, shipVars, boundVars, status, panel,
                   blessed, ready>>

\* The gate holds a rejection of this very commit, and nothing has changed.
Stale == cp.seen = Pending /\ cp.verdict \in Rejecting

\* No diff since a commit that is still outstanding.
Outstanding == pc = "gate" /\ Pending # NoSha /\ ~InLive(Pending)

\* Ask for review: no verdict is held, or the one held was the harness's and
\* has not been asked about, or the reviewer's record is no longer the same.
AskAgain ==
    /\ Outstanding /\ TurnTo(Pending) /\ Overlooks(dirty)
    /\ \/ ~Stale /\ UNCHANGED retry
       \/ /\ Stale /\ cp.verdict = "HARNESS" /\ cp.retried # Pending
          /\ retry' = Pending
       \/ /\ Stale /\ ~(cp.verdict = "HARNESS" /\ cp.retried # Pending)
          /\ rec.sha # Pending \/ rec.verdict # cp.verdict
          /\ UNCHANGED retry
    /\ UNCHANGED <<gitVars, recVars, boundVars, appr, judged, offTip, status,
                   cp, panel, blessed, ready, episode>>

\* Otherwise the coder is nudged (or restarted on a fresh thread), and after
\* the last nudge a human is asked.  The reviewer may not have answered.
NudgeCoder ==
    /\ Outstanding /\ Stale
    /\ ~(cp.verdict = "HARNESS" /\ cp.retried # Pending)
    /\ \/ Done([LoopBack(cp) EXCEPT !.committed = Pending], episode)
       \/ Done(Escalate(cp, "other"), episode)
    /\ UNCHANGED <<gitVars, recVars, shipVars, boundVars, status, panel,
                   blessed, ready>>

\* Mutant of NoDiff: nothing ends the nudging.
NoDiffUnbounded ==
    /\ pc = "gate" /\ ~dirty /\ Pending = NoSha
    /\ Done([LoopBack(cp) EXCEPT !.nodiff = cp.nodiff + 1], episode)
    /\ UNCHANGED <<gitVars, recVars, shipVars, boundVars, status, panel,
                   blessed, ready>>

\* No diff and no commit to go on with: there is none, or it is not on record
\* and commits_ahead, which says 0 when git fails, was not answered.
NothingToShip ==
    \/ Pending = NoSha /\ Overlooks(dirty)
    \/ cp.committed = NoSha /\ Ahead /\ Overlooks(TRUE)

\* Nudge, and believe it the second time; a benchmark is nudged for ever.  A
\* message that reads as cut off is nudged without counting.
NoDiff ==
    /\ pc = "gate" /\ NothingToShip
    /\ \/ ~Benchmark /\ cp.nodiff >= 1
          /\ Done([cp EXCEPT !.nodiff = 0], "done_no_changes")
       \/ (Benchmark \/ cp.nodiff = 0)
          /\ Done([LoopBack(cp) EXCEPT !.nodiff = 1], episode)
       \/ Done(LoopBack(cp), episode)
    /\ UNCHANGED <<gitVars, recVars, boundVars, status, panel, blessed, ready>>

\* A diff that is not committed: the agent's own plan is unfinished, a
\* benchmark's diff or its verifier has a say, or the commit was refused.
HoldCommit ==
    /\ pc = "gate" /\ dirty
    /\ \/ Done(LoopBack(cp), episode)
       \/ Done(Escalate(cp, "other"), episode)
    /\ UNCHANGED <<gitVars, recVars, shipVars, boundVars, status, panel,
                   blessed, ready>>

Commit ==
    /\ pc = "gate" /\ dirty
    /\ \E c \in Commits : Mint(c, c) /\ own' = own \union {c}
    /\ dirty' = FALSE /\ pc' = "rebase" /\ Overlooks(FALSE)
    /\ UNCHANGED <<insync, landed, recVars, boundVars, localVars, status, cp,
                   panel, blessed, ready, episode>>

\* The commit is put on the present tip of main before it is reviewed -- or
\* stays where it is: main did not move, or git failed without naming a file.
RebaseCommit ==
    /\ pc = "rebase"
    /\ \/ /\ TurnTo(head)
          /\ UNCHANGED <<patch, used, head, own, insync>>
       \/ /\ ~insync
          /\ \E c, p \in 0..N : Rebase(c, p) /\ TurnTo(c)
    /\ UNCHANGED <<dirty, landed, recVars, shipVars, boundVars, appr, retry,
                   judged, offTip, status, cp, panel, blessed, ready, episode>>

RebaseConflicts ==
    /\ pc = "rebase" /\ ~insync
    /\ Done([LoopBack(cp) EXCEPT !.committed = head], episode)
    /\ UNCHANGED <<gitVars, recVars, shipVars, boundVars, status, panel,
                   blessed, ready>>

-----------------------------------------------------------------------------
(* _review_and_deploy *)

\* asked_at: from here on only a harness failure recorded later counts.
Ask ==
    /\ pc = "ask" /\ pc' = "review"
    /\ rec' = [rec EXCEPT !.since = FALSE]
    /\ UNCHANGED <<gitVars, shipVars, boundVars, localVars, reviewing, status,
                   cp, panel, blessed, ready, episode>>

AskFails ==
    /\ pc = "ask"
    /\ Done(Escalate([cp EXCEPT !.committed = sha], "other"), episode)
    /\ UNCHANGED <<gitVars, recVars, shipVars, boundVars, status, panel,
                   blessed, ready>>

\* Mutant of Answered: whatever the record says is taken for this commit.
AnsweredByAnyRecord == /\ pc = "review" /\ rec.verdict # "NONE"
                       /\ rec.verdict = "HARNESS" => rec.since

\* wait_for_review returns a record of exactly this commit.
Answered == /\ pc = "review" /\ rec.sha = sha /\ rec.verdict # "NONE"
            /\ rec.verdict = "HARNESS" => rec.since

\* The checkpoint once the verdict is known.
Reviewed == [cp EXCEPT !.committed = sha, !.seen = sha, !.verdict = rec.verdict]

ReviewTimesOut ==
    /\ pc = "review" /\ ~Answered
    /\ Done(Escalate([cp EXCEPT !.committed = sha], "gateInfra"), episode)
    /\ UNCHANGED <<gitVars, recVars, shipVars, boundVars, status, panel,
                   blessed, ready>>

\* The reviewer's own circuit breaker: a human is asked, but a benchmark ships
\* what is disputed as it stands.
Disputed(v) == Benchmark /\ v \in {"BREAKER", "HARNESS"}

\* Mutant of Ships: on a benchmark every rejection is taken for a dispute.
ShipsAnyVerdict == rec.verdict = "READY" \/ (Benchmark /\ rec.verdict \in Rejecting)

Ships == rec.verdict = "READY" \/ Disputed(rec.verdict)

Rejected ==
    /\ Answered /\ ~Ships
    /\ Done(IF rec.verdict = "FIX"
            THEN [LoopBack(Reviewed) EXCEPT !.approved = NoSha]
            ELSE Escalate(Reviewed, "other"), episode)
    /\ UNCHANGED <<gitVars, recVars, shipVars, boundVars, status, panel,
                   blessed, ready>>

\* Mutant of NeedsFinalLook: any approval will do.
NeedsSomeLook == RequireReview /\ appr = NoSha

NeedsFinalLook == RequireReview /\ appr # sha

Park ==
    /\ Answered /\ Ships /\ NeedsFinalLook
    /\ Done([Reviewed EXCEPT !.parked = sha], "shipped")
    /\ UNCHANGED <<gitVars, recVars, shipVars, boundVars, status, panel,
                   blessed, ready>>

PassReview ==
    /\ Answered /\ Ships /\ ~NeedsFinalLook /\ judged' = rec.verdict
    /\ pc' = IF ShipMode = "pr" THEN "ship" ELSE "ci"
    /\ UNCHANGED <<gitVars, recVars, shipVars, boundVars, sha, appr, retry, offTip,
                   status, cp, panel, blessed, ready, episode>>

\* From here the gate holds its verdict on sha, whatever the record says now.
Passed == [cp EXCEPT !.committed = sha, !.seen = sha, !.verdict = judged]
Void(c) == [c EXCEPT !.approved = NoSha]

CIPasses ==
    /\ pc = "ci" /\ pc' = "ship"
    /\ UNCHANGED <<gitVars, recVars, shipVars, boundVars, localVars, status,
                   cp, panel, blessed, ready, episode>>

\* A benchmark has no Actions runs to wait for.
CIFails ==
    /\ pc = "ci" /\ ~Benchmark
    /\ Done([LoopBack(Void(Passed)) EXCEPT !.parked = NoSha], episode)
    /\ UNCHANGED <<gitVars, recVars, shipVars, boundVars, status, panel,
                   blessed, ready>>

\* Timeout, an unreadable run, a push or a pull request that failed.
CIStops ==
    /\ pc = "ci" /\ ~Benchmark
    /\ \E w \in {"gateInfra", "other"} : Done(Escalate(Passed, w), episode)
    /\ UNCHANGED <<gitVars, recVars, shipVars, boundVars, status, panel,
                   blessed, ready>>

\* Mutant of Mergeable: the verdict is not compared with the tip.
MergeableByVerdict == rec.verdict = "READY" /\ reviewing # head

\* The merge endpoint's own gate, on the tip of the branch.
Mergeable == rec.sha = head /\ rec.verdict = "READY" /\ reviewing # head

FastForward ==
    /\ landed' = landed \union own /\ merged' = merged \union {head}
    /\ rec' \in {rec, [sha |-> NoSha, verdict |-> "NONE", since |-> FALSE]}
    /\ UNCHANGED <<patch, used, head, own, dirty, insync, reviewing, pushed,
                   deployed, unseen, boundVars, status, panel, blessed, ready>>

Merge ==
    /\ pc = "ship" /\ ShipMode = "push" /\ Mergeable /\ insync
    /\ FastForward /\ pc' = "deploy"
    /\ UNCHANGED <<localVars, cp, episode>>

\* The answer to a merge that happened never reached the gate.
MergeAnswerLost ==
    /\ pc = "ship" /\ ShipMode = "push" /\ Mergeable /\ insync
    /\ FastForward /\ Throw

\* Refused, or git failed: the approval was for an attempt that is over.
ShipFails ==
    /\ pc = "ship"
    /\ \E w \in {"gateInfra", "other"} :
         Done(Escalate(Void(Passed), w), episode)
    /\ UNCHANGED <<gitVars, recVars, shipVars, boundVars, status, panel,
                   blessed, ready>>

\* A branch behind main is sent back by Diverge; when git cannot count the
\* commits it is behind, the pull request is opened all the same.
OpenPullRequest ==
    /\ pc = "ship" /\ ShipMode = "pr"
    /\ pushed' = pushed \union {head}
    /\ Done([Void(Passed) EXCEPT !.committed = NoSha, !.parked = NoSha], "shipped")
    /\ UNCHANGED <<gitVars, recVars, boundVars, merged, deployed, unseen, status,
                   panel, blessed, ready>>

\* main moved since the review: rebase, and review the new commit.  The
\* operator's approval goes with it only when the patch is the same.
Diverge ==
    /\ pc = "ship" /\ ~insync
    /\ ShipMode = "push" => Mergeable
    /\ pc' = "diverged"
    /\ UNCHANGED <<gitVars, recVars, shipVars, boundVars, localVars, status,
                   cp, panel, blessed, ready, episode>>

Carries(p) == p = patch[head] /\ appr = sha

\* git does not rebase a workspace with uncommitted work.
RebaseDiverged ==
    /\ pc = "diverged" /\ ~insync /\ ~dirty
    /\ \E c, p \in 0..N :
         /\ Rebase(c, p) /\ TurnTo(c)
         /\ appr' = IF Carries(p) THEN c ELSE appr
    /\ UNCHANGED <<dirty, landed, recVars, shipVars, boundVars, retry, judged,
                   offTip, status, cp, panel, blessed, ready, episode>>

DivergedConflicts ==
    /\ pc = "diverged"
    /\ \/ Done(LoopBack(Void(Passed)), episode)
       \/ Done(Escalate(Void(Passed), "gateInfra"), episode)
    /\ UNCHANGED <<gitVars, recVars, shipVars, boundVars, status, panel,
                   blessed, ready>>

Deploy ==
    /\ pc = "deploy" /\ deployed' = TRUE
    /\ Done([Void(Passed) EXCEPT !.committed = NoSha, !.parked = NoSha], "shipped")
    /\ UNCHANGED <<gitVars, recVars, boundVars, merged, pushed, unseen, status,
                   panel, blessed, ready>>

\* A build failure goes back to the agent, any other one to a human.
DeployFails ==
    /\ pc = "deploy"
    /\ \/ Done(LoopBack(Void(Passed)), episode)
       \/ Done(Escalate(Void(Passed), "other"), episode)
    /\ UNCHANGED <<gitVars, recVars, shipVars, boundVars, status, panel,
                   blessed, ready>>

GateThrows ==
    /\ pc \in Interior /\ Throw
    /\ UNCHANGED <<gitVars, recVars, shipVars, boundVars, status, panel,
                   blessed, ready>>

-----------------------------------------------------------------------------
(* The run around the graph: _stream_graph, restarts, Stop *)

\* The driver starts and says so in the Store, once it is scheduled and again
\* when it holds one of the project's slots; the transition that started it was
\* checkpointed before.
MarkQueued ==
    /\ pc = "starting" /\ status' = "queued" /\ pc' = "queued"
    /\ UNCHANGED <<gitVars, recVars, shipVars, boundVars, localVars, cp, panel,
                   blessed, ready, episode>>

MarkRunning ==
    /\ pc = "queued" /\ status' = "running" /\ pc' = "next"
    /\ UNCHANGED <<gitVars, recVars, shipVars, boundVars, localVars, cp, panel,
                   blessed, ready, episode>>

\* workspaces.remove: the commits stay on the branch, the rest goes; a mount
\* that cannot be undone keeps it all.
EndRun ==
    /\ pc = "next" /\ cp.next = "end"
    /\ status' = FinalStatus(cp) /\ pc' = "off"
    /\ dirty' \in {dirty, dirty /\ status' # "done"}
    /\ UNCHANGED <<patch, used, head, own, insync, landed, recVars, shipVars,
                   boundVars, localVars, cp, panel, blessed, ready, episode>>

\* The server dies, or the operator stops the run: the locals are gone, and the
\* node that was running starts over from the last checkpoint.
LoseDriver(s) ==
    /\ pc # "off" /\ crashed < MaxCrash
    /\ pc' = "off" /\ offTip' = FALSE /\ judged' = "NONE"
    /\ sha' = NoSha /\ appr' = NoSha /\ retry' = NoSha
    /\ status' = s /\ crashed' = crashed + 1
    /\ UNCHANGED <<gitVars, recVars, shipVars, cp, panel, blessed, ready,
                   episode, edited, moved, ops>>

Crash == LoseDriver(status)
Stop  == pc # "starting" /\ LoseDriver("stopped")

\* What starts a run: a patch for the checkpoint, and the node that comes next.
Start(c, next) ==
    /\ pc = "off" /\ pc' = "starting"
    /\ cp' = [c EXCEPT !.next = next]
    /\ UNCHANGED <<gitVars, recVars, shipVars, localVars, status, ready,
                   episode, moved, crashed>>

\* _auto_resume_orphaned_tasks: what the Store says runs and nothing drives.
AutoResume ==
    /\ status \in {"queued", "running"} /\ ~cp.escalated
    /\ Start([cp EXCEPT !.left = @ + Grant], cp.next)
    /\ UNCHANGED <<panel, blessed, edited, ops>>

-----------------------------------------------------------------------------
(* The operator: lifecycle.py, through routers/tasks.py *)

Decide(c, next) == ops < MaxOps /\ ops' = ops + 1 /\ Start(c, next)

Granted == [cp EXCEPT !.left = @ + Grant]
Healthy(c) == [c EXCEPT !.escalated = FALSE, !.why = "none"]
Fresh(c) == [c EXCEPT !.nodiff = 0]

\* Mutant of SentBack: the approval stays where it is.
SentBackApproved(c) == [Fresh(c) EXCEPT !.feedback = TRUE]

\* "New work means a new commit; an approval of the old one must not survive to
\* ship it": whoever sends the task back to work withdraws what was approved.
SentBack(c) == [Void(Fresh(c)) EXCEPT !.feedback = TRUE]
Withdraw == blessed' = {}

\* Approved, committed, escalated on the way out: back to shipping.
ResumeShipping ==
    /\ PhaseOf(cp) = "escalated"
    /\ cp.approved # NoSha /\ cp.approved = cp.committed
    /\ LET c == Healthy(Granted) IN Decide(c, Route(c))
    /\ UNCHANGED <<panel, blessed, edited>>

ResumeWork(message) ==
    /\ PhaseOf(cp) = "escalated"
    /\ ~(cp.approved # NoSha /\ cp.approved = cp.committed /\ ~message)
    /\ LET c == SentBack(Healthy(Granted)) IN Decide(c, Route(c))
    /\ Withdraw /\ UNCHANGED <<panel, edited>>

Reopen ==
    /\ PhaseOf(cp) = "done"
    /\ LET c == SentBack(Granted) IN Decide(c, Route(c))
    /\ Withdraw /\ UNCHANGED <<panel, edited>>

CarryOn ==
    /\ PhaseOf(cp) \in {"stopped", "running"}
    /\ Decide(Granted, cp.next)
    /\ UNCHANGED <<panel, blessed, edited>>

\* The operator opens the diff of the commit that is parked; the panel may stay
\* open long after.
OpenPanel ==
    /\ pc = "off" /\ PhaseOf(cp) = "awaiting_merge" /\ panel # cp.parked
    /\ panel' = cp.parked
    /\ UNCHANGED <<gitVars, recVars, shipVars, boundVars, localVars, status,
                   cp, pc, blessed, ready, episode>>

\* The panel's commit comes with the decision, and must be the parked one.
ShownIsParked == panel = cp.parked

MergeApprove ==
    /\ cp.parked # NoSha /\ PhaseOf(cp) = "awaiting_merge"
    /\ panel # NoSha /\ ShownIsParked
    /\ LET c == [cp EXCEPT !.approved = cp.parked, !.parked = NoSha]
       IN Decide(c, Route(c))
    /\ blessed' = blessed \union {patch[panel]}
    /\ UNCHANGED <<panel, edited>>

RequestChanges ==
    /\ cp.parked # NoSha /\ PhaseOf(cp) = "awaiting_merge"
    /\ LET c == [SentBack(cp) EXCEPT !.parked = NoSha] IN Decide(c, Route(c))
    /\ Withdraw /\ UNCHANGED <<panel, edited>>

OperatorEdit ==
    /\ cp.parked # NoSha /\ PhaseOf(cp) = "awaiting_merge" /\ ShownIsParked
    /\ edited < MaxEdits /\ edited' = edited + 1
    /\ Decide([Void(Fresh(cp)) EXCEPT !.edits = cp.parked, !.parked = NoSha],
              "verify")
    /\ Withdraw /\ UNCHANGED panel

CommandDecision ==
    /\ cp.paused /\ PhaseOf(cp) = "awaiting_approval"
    /\ LET c == [cp EXCEPT !.paused = FALSE, !.decision = TRUE, !.feedback = TRUE]
       IN Decide(c, Route(c))
    /\ UNCHANGED <<panel, blessed, edited>>

-----------------------------------------------------------------------------
(* The supervisor, on tasks the Store says are parked *)

Parked == pc = "off" /\ status \in {"escalated", "awaiting_merge"}

\* The work is on main already, whatever the task was waiting for.  The meta's
\* status is written after the checkpoint, and nothing runs in between.
ConcludeLanded ==
    /\ Parked /\ PhaseOf(cp) \in {"escalated", "awaiting_merge"}
    /\ Landed(cp.committed)
    /\ cp' = [Void(Healthy(cp)) EXCEPT !.parked = NoSha, !.feedback = FALSE,
                 !.next = Route([Healthy(cp) EXCEPT !.parked = NoSha,
                                 !.feedback = FALSE, !.approved = NoSha])]
    /\ status' = "done"
    /\ UNCHANGED <<gitVars, recVars, shipVars, boundVars, localVars, pc, panel,
                   blessed, ready, episode>>

Heal ==
    /\ Parked /\ PhaseOf(cp) = "escalated" /\ ~Landed(cp.committed)
    /\ LET c == SentBack(Healthy(cp))
       IN \/ /\ cp.why = "gateInfra" /\ Decide(Fresh(Healthy(cp)), "verify")
             /\ UNCHANGED blessed
          \/ cp.why = "workInfra" /\ Decide(c, Route(c)) /\ Withdraw
    /\ UNCHANGED <<panel, edited>>

\* sweep_workspaces: whatever a task that is done left in its workspace.
SweepWorkspace ==
    /\ pc = "off" /\ status = "done" /\ dirty /\ dirty' = FALSE
    /\ UNCHANGED <<patch, used, head, own, insync, landed, recVars, shipVars,
                   boundVars, localVars, status, cp, pc, panel, blessed, ready,
                   episode>>

-----------------------------------------------------------------------------
(* The world: the reviewer, and whoever else moves main *)

StartReview ==
    /\ reviewing = NoSha /\ Ahead /\ ~dirty
    /\ rec.sha # head \/ rec.verdict = "HARNESS"
    /\ reviewing' = head
    /\ UNCHANGED <<gitVars, shipVars, boundVars, localVars, rec, status, cp,
                   pc, panel, blessed, ready, episode>>

RecordVerdict ==
    /\ reviewing # NoSha /\ reviewing' = NoSha
    /\ \E v \in Verdicts \ {"NONE"} :
         /\ rec' = [sha |-> reviewing, verdict |-> v, since |-> TRUE]
         /\ ready' = IF v = "READY" THEN ready \union {reviewing} ELSE ready
    /\ UNCHANGED <<gitVars, shipVars, boundVars, localVars, status, cp, pc,
                   panel, blessed, episode>>

LiveMoves ==
    /\ moved < MaxLive /\ moved' = moved + 1 /\ insync' = FALSE
    /\ UNCHANGED <<patch, used, head, own, dirty, landed, recVars, shipVars,
                   localVars, status, cp, pc, panel, blessed, ready, episode,
                   edited, crashed, ops>>

-----------------------------------------------------------------------------
Init ==
    /\ patch = [c \in 0..N |-> c] /\ used = 0
    /\ head = Base /\ own = {} /\ dirty = FALSE /\ insync = TRUE /\ landed = {}
    /\ rec = [sha |-> NoSha, verdict |-> "NONE", since |-> FALSE]
    /\ reviewing = NoSha
    /\ cp = [next |-> "work", escalated |-> FALSE, why |-> "none",
             parked |-> NoSha, approved |-> NoSha, committed |-> NoSha,
             edits |-> NoSha, feedback |-> FALSE, paused |-> FALSE,
             decision |-> FALSE, nodiff |-> 0, left |-> MaxIter,
             seen |-> NoSha, verdict |-> "NONE", retried |-> NoSha]
    /\ status = "queued" /\ pc = "starting"
    /\ sha = NoSha /\ appr = NoSha /\ retry = NoSha /\ judged = "NONE"
    /\ offTip = FALSE /\ panel = NoSha /\ unseen = FALSE
    /\ blessed = {} /\ ready = {} /\ merged = {} /\ pushed = {}
    /\ deployed = FALSE /\ episode = "none"
    /\ edited = 0 /\ moved = 0 /\ crashed = 0 /\ ops = 0

Work == \/ WorkspaceUnavailable \/ StartWork \/ AgentEdits \/ AgentCommits
        \/ WorkEnds

Gate == \/ GateDeclines \/ GateRefusesEdits \/ GateOpens \/ FastPath
        \/ ChecksFail \/ ConcludeInLive \/ AskAgain \/ NudgeCoder \/ NoDiff
        \/ HoldCommit \/ Commit \/ RebaseCommit \/ RebaseConflicts
        \/ Ask \/ AskFails \/ ReviewTimesOut \/ Rejected \/ Park \/ PassReview
        \/ CIPasses \/ CIFails \/ CIStops \/ Merge \/ MergeAnswerLost
        \/ ShipFails \/ OpenPullRequest \/ Diverge \/ RebaseDiverged
        \/ DivergedConflicts \/ Deploy \/ DeployFails \/ GateThrows

Driver == MarkQueued \/ MarkRunning \/ Work \/ Gate \/ EndRun

Operator == \/ ResumeShipping \/ (\E m \in BOOLEAN : ResumeWork(m)) \/ Reopen
            \/ CarryOn \/ OpenPanel \/ MergeApprove \/ RequestChanges
            \/ OperatorEdit \/ CommandDecision

Supervisor == ConcludeLanded \/ Heal \/ SweepWorkspace

World == StartReview \/ RecordVerdict \/ LiveMoves \/ Crash \/ Stop \/ AutoResume

Next == Driver \/ Operator \/ Supervisor \/ World

Spec == Init /\ [][Next]_vars

\* asyncio runs a ready driver, and every wait of the gate has a timeout; the
\* supervisor sweeps for as long as the server is up.
Fairness == WF_vars(Driver) /\ WF_vars(ConcludeLanded)
FairSpec == Spec /\ Fairness

-----------------------------------------------------------------------------
(* Properties *)

\* Every variable stays in its domain.
TypeOK ==
    /\ patch \in [0..N -> 0..N] /\ used \in 0..N /\ head \in 0..N
    /\ own \subseteq Commits /\ landed \subseteq Commits
    /\ dirty \in BOOLEAN /\ insync \in BOOLEAN /\ deployed \in BOOLEAN
    /\ judged \in Verdicts /\ offTip \in BOOLEAN /\ unseen \in BOOLEAN
    /\ rec \in [sha : MaybeSha, verdict : Verdicts, since : BOOLEAN]
    /\ reviewing \in MaybeSha /\ cp \in Checkpoints /\ status \in Statuses
    /\ pc \in Places
    /\ sha \in MaybeSha /\ appr \in MaybeSha /\ retry \in MaybeSha
    /\ panel \in MaybeSha /\ blessed \subseteq 0..N /\ ready \subseteq 0..N
    /\ merged \subseteq 0..N /\ pushed \subseteq 0..N
    /\ episode \in Episodes
    /\ edited \in 0..MaxEdits /\ moved \in 0..MaxLive
    /\ crashed \in 0..MaxCrash /\ ops \in 0..MaxOps

\* An approval in the checkpoint still stands: it is for a patch the operator
\* approved on his screen, and nobody has sent the task back to work since, by a
\* resume, a reopening, a hand edit, a request for changes or a healed pass
\* ("an approval of the old one must not survive to ship it", lifecycle.resume).
ApprovalStands == cp.approved # NoSha => patch[cp.approved] \in blessed

\* With the final look required, the gate is at CI, at the merge or past it
\* only with the tip of the branch, and with a patch the operator approved,
\* whatever was resumed, healed, re-reviewed or rebased on the way there --
\* except where the fast path took up a commit that is not the tip.
MergeAttemptApproved ==
    RequireReview /\ ~offTip /\ pc \in {"ci", "ship", "deploy", "diverged"}
        => sha = head /\ sha = appr /\ patch[sha] \in blessed

\* The merge endpoint only ever moves main to a tip the reviewer called READY,
\* although it takes a branch and not a commit, and the branch may have moved.
LandedWasReviewed == merged \subseteq ready

\* What the operator is asked about is the tip of the branch, called READY --
\* or, on a benchmark, the rejection he is shown is the reviewer's breaker -- with
\* nothing newer in the tree unless git did not say so: approving it cannot leave
\* work behind.
ParkedIsTip ==
    cp.parked # NoSha =>
        /\ cp.parked = cp.committed
        /\ cp.parked \in ready \/ (cp.seen = cp.parked /\ Disputed(cp.verdict))
        /\ pc \in {"off", "starting", "queued", "next"}
             => cp.parked = head /\ (~dirty \/ unseen)

\* "The rule that what ships is what was reviewed holds either way"
\* (ship_as_pull_request): what a pull request offers was called READY, although
\* it is the tip of the branch that is pushed and another commit that was waited
\* for.  It holds without the operator's final look; with it, the fast path may
\* take up a commit that is not the tip.
PushedWasReviewed == pushed \subseteq ready

\* The same patch is never merged twice, whatever retries follow a merge whose
\* answer was lost or whose deploy failed.
NeverMergesTwice == \A a, b \in merged : patch[a] = patch[b] => a = b

\* A task that ended with no changes has no commit of its own that main does
\* not have, wherever the record of it was lost (audit C-6), and nothing
\* uncommitted -- if git answered when the gate asked.
NoUnshippedNoChanges ==
    pc = "off" /\ status = "done" /\ episode = "done_no_changes"
        => (~Ahead /\ ~dirty) \/ unseen

\* An episode says "shipped" only of a task with work on main or in a pull
\* request; the project's memory is learnt from it (_is_terminal's comment).
\* The exceptions: an alert somebody else fixed, and a branch that was put onto
\* main's own tip, which the gate cannot tell from one that merged.
ShippedMeansLanded ==
    [][episode' = "shipped" /\ episode # "shipped"
         => landed' \union pushed' # {} \/ HasAlert \/ head = Base]_vars

\* A result of the gate never routes straight back into the gate: the agent or
\* a human is next, or the end (the wedge of 2026-08-26, audit C-5).
GateNeverSelfRoutes ==
    [][(pc \in Interior /\ pc' = "next") => (cp'.next # "verify")]_vars

\* A run comes to rest, by its iterations and the timeouts of its waits.
RunsRest == (pc # "off") ~> (pc = "off")

\* A resting task whose work main already has, under this id or the id of a
\* rebase, is concluded without a human, unless somebody restarts it first or
\* it also waits for the decision on a command.
LandedRests ==
    (pc = "off" /\ status = "escalated" /\ ~cp.paused /\ cp.committed # NoSha
        /\ \E c \in landed : patch[c] = patch[cp.committed])
        ~> (status = "done" \/ pc # "off")


=============================================================================
