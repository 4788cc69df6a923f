-------------------------- MODULE TaskGateOutcome --------------------------
(***************************************************************************)
(* What a task comes to, for every value of TaskGate's constants: a patch  *)
(* merges once, a parked commit is the tip of the branch, a task that says *)
(* it made no changes has none, one that says it shipped did, and without  *)
(* the final look a pull request offers what was reviewed.                 *)
(***************************************************************************)
EXTENDS TaskGateProofs

\* The branch: ids and patches grow together, main has a whole branch or none
\* of its tip, and what is not on main is no patch that main has.
CommitsInv ==
    /\ \A c \in 0..N : patch[c] <= c
    /\ \A c \in own \union landed : c <= used
    /\ merged \subseteq landed /\ head \in own \union {Base}
    /\ head \in landed => head \in merged
    /\ Ahead => \A c \in landed : patch[c] # patch[head]
    /\ NeverMergesTwice

BranchInv == TypeOK /\ RecordInv /\ CommitsInv

Outside == {"off", "starting", "queued", "next"}

\* Nothing newer than the branch, and nothing main does not have, unless git did
\* not say what there is.
Clean       == ~dirty \/ unseen
NothingLeft == (~Ahead /\ ~dirty) \/ unseen

\* Where the driver is, what the checkpoint is for, and what the gate holds there.
PlaceInv ==
    /\ pc = "work" => cp.next = "work"
    /\ pc \in Interior => cp.next = "verify" /\ ~cp.escalated /\ ~cp.paused
    /\ pc = "gate" => appr = cp.approved
    /\ pc \in Shipping => sha = head \/ sha = appr
    /\ pc \in Shipping \union {"rebase"} => Clean
    /\ pc = "deploy" => landed # {}

\* A parked task is at its end and waits for nothing else.
ParkInv ==
    cp.parked # NoSha =>
        /\ cp.next = "end" /\ ~cp.escalated /\ ~cp.paused
        /\ cp.parked = cp.committed /\ cp.parked = head /\ Clean
        /\ cp.parked \in ready \/ (cp.seen = cp.parked /\ Disputed(cp.verdict))

WaitInv == BranchInv /\ PlaceInv /\ ParkInv

\* What the Store and the episode say of the checkpoint, and of the branch when
\* they say that nothing was changed.
SaidInv ==
    /\ pc \notin {"off", "starting", "queued"} => status = "running"
    /\ pc = "queued" => status = "queued"
    /\ status = "escalated" => episode = "escalated"
    /\ status = "awaiting_merge" => cp.committed = head /\ Clean
    /\ cp.next = "end" /\ cp.escalated => episode = "escalated"
    /\ episode = "done_no_changes" /\ status = "done" => NothingLeft
    /\ episode = "done_no_changes" /\ cp.next = "end" /\ ~cp.escalated /\ ~cp.paused
          /\ cp.parked = NoSha => NothingLeft

EndInv == WaitInv /\ SaidInv

-----------------------------------------------------------------------------
(* The ways the branch and main move *)

Stays  == UNCHANGED <<patch, used, head, own, landed, merged>>
Grows  == /\ \E c \in Commits : Mint(c, c) /\ own' = own \union {c}
          /\ UNCHANGED <<landed, merged>>
Rebases == (\E c, p \in 0..N : Rebase(c, p)) /\ UNCHANGED <<landed, merged>>
Resets  == OntoBase /\ UNCHANGED <<patch, used, landed, merged>>
Merges  == FastForward /\ Mergeable

LEMMA GateBranch ==
    ASSUME Gate
    PROVE  Stays \/ Grows \/ Rebases \/ Merges
<1> USE DEF gitVars, shipVars, Overlooks, NothingToShip
<1>1. CASE \/ GateDeclines \/ GateRefusesEdits \/ GateOpens \/ FastPath \/ ChecksFail
           \/ ConcludeInLive \/ AskAgain \/ NudgeCoder \/ NoDiff \/ HoldCommit
           \/ RebaseConflicts
  BY <1>1 DEF GateDeclines, GateRefusesEdits, GateOpens, FastPath, ChecksFail,
     ConcludeInLive, AskAgain, NudgeCoder, NoDiff, HoldCommit, RebaseConflicts, Stays
<1>2. CASE \/ Ask \/ AskFails \/ ReviewTimesOut \/ Rejected \/ Park \/ PassReview
           \/ CIPasses \/ CIFails \/ CIStops
  BY <1>2 DEF Ask, AskFails, ReviewTimesOut, Rejected, Park, PassReview, CIPasses,
     CIFails, CIStops, Stays
<1>3. CASE \/ ShipFails \/ OpenPullRequest \/ Diverge \/ DivergedConflicts \/ Deploy
           \/ DeployFails \/ GateThrows
  BY <1>3 DEF ShipFails, OpenPullRequest, Diverge, DivergedConflicts, Deploy,
     DeployFails, GateThrows, Stays
<1>4. CASE Commit
  BY <1>4 DEF Commit, Grows
<1>5. CASE RebaseCommit
  BY <1>5 DEF RebaseCommit, Stays, Rebases
<1>6. CASE RebaseDiverged
  BY <1>6 DEF RebaseDiverged, Rebases
<1>7. CASE Merge \/ MergeAnswerLost
  BY <1>7 DEF Merge, MergeAnswerLost, Merges
<1> QED
  BY <1>1, <1>2, <1>3, <1>4, <1>5, <1>6, <1>7 DEF Gate

LEMMA WorkBranch ==
    ASSUME Work
    PROVE  Stays \/ Grows \/ Rebases \/ Resets
<1> USE DEF gitVars, shipVars
<1>1. CASE WorkspaceUnavailable \/ AgentEdits \/ WorkEnds
  BY <1>1 DEF WorkspaceUnavailable, AgentEdits, WorkEnds, Stays
<1>2. CASE AgentCommits
  BY <1>2 DEF AgentCommits, Grows
<1>3. CASE StartWork
  BY <1>3 DEF StartWork, RestoreTaskWorkspace, Stays, Rebases, Resets
<1> QED
  BY <1>1, <1>2, <1>3 DEF Work

LEMMA OthersBranch ==
    ASSUME MarkQueued \/ MarkRunning \/ EndRun \/ Operator \/ Supervisor \/ World
    PROVE  Stays
<1> USE DEF gitVars, shipVars, Stays
<1>1. CASE MarkQueued \/ MarkRunning \/ EndRun
  BY <1>1 DEF MarkQueued, MarkRunning, EndRun
<1>2. CASE Operator
  BY <1>2 DEF Operator, ResumeShipping, ResumeWork, Reopen, CarryOn, OpenPanel,
     MergeApprove, RequestChanges, OperatorEdit, CommandDecision, Decide, Start
<1>3. CASE Supervisor
  BY <1>3 DEF Supervisor, ConcludeLanded, Heal, SweepWorkspace, Decide, Start
<1>4. CASE World
  BY <1>4 DEF World, StartReview, RecordVerdict, LiveMoves, Crash, Stop, LoseDriver,
     AutoResume, Start
<1> QED
  BY <1>1, <1>2, <1>3, <1>4

LEMMA BranchMoves ==
    ASSUME Next
    PROVE  Stays \/ Grows \/ Rebases \/ Resets \/ Merges
BY GateBranch, WorkBranch, OthersBranch DEF Next, Driver

-----------------------------------------------------------------------------
(* A patch merges once *)

LEMMA CommitsStay == ASSUME CommitsInv, Stays PROVE CommitsInv'
BY DEF CommitsInv, Stays, Ahead, InLive, NeverMergesTwice

\* A new commit carries its own patch, or that of a tip that is not on main.
LEMMA MintCommits ==
    ASSUME BranchInv, NEW c, NEW p, Mint(c, p), p = c \/ Ahead,
           own' \subseteq own \union {c}, c \in own', UNCHANGED <<landed, merged>>
    PROVE  CommitsInv'
<1>0. /\ TypeOK /\ CommitsInv /\ used \in 0..N /\ used < N
      /\ c = used + 1 /\ used' = c /\ head' = c /\ p \in {c, patch[head]}
      /\ patch' = [patch EXCEPT ![c] = p] /\ patch \in [0..N -> 0..N] /\ head \in 0..N
  BY DEF BranchInv, Mint, TypeOK
<1>1. used \in Nat /\ c \in 0..N /\ c # Base /\ 0..N \subseteq Int
  BY <1>0, NIsNat DEF Base
<1>2. head <= used /\ \A d \in own \union landed : d \in 0..N /\ d <= used /\ d # c
  <2>1. \A d \in own \union landed : d \in 0..N /\ d <= used
    BY <1>0, <1>1, ShaTypes DEF TypeOK, CommitsInv
  <2>2. head \in own \union {Base}
    BY <1>0, <1>1 DEF CommitsInv
  <2> QED
    BY <1>0, <1>1, <2>1, <2>2 DEF Base
<1>3. patch[head] <= head /\ patch[head] \in Int
  BY <1>0, <1>1 DEF CommitsInv
<1>4. p <= c /\ patch'[c] = p
  BY <1>0, <1>1, <1>2, <1>3
<1>5. \A d \in 0..N : patch'[d] <= d
  <2> SUFFICES ASSUME NEW d \in 0..N PROVE patch'[d] <= d
    OBVIOUS
  <2>1. CASE d = c
    BY <1>4, <2>1
  <2>2. CASE d # c
    BY <1>0, <1>1, <2>2 DEF CommitsInv
  <2> QED
    BY <2>1, <2>2
<1>6. \A d \in landed : patch'[d] = patch[d] /\ patch[d] # p
  <2> SUFFICES ASSUME NEW d \in landed PROVE patch'[d] = patch[d] /\ patch[d] # p
    OBVIOUS
  <2>1. d \in 0..N /\ d <= used /\ d # c /\ patch'[d] = patch[d]
    BY <1>0, <1>1, <1>2
  <2>2. CASE p = c
    <3>1. patch[d] <= d /\ patch[d] \in Int /\ d \in Int
      BY <1>0, <1>1, <2>1 DEF CommitsInv
    <3> QED
      BY <1>0, <1>1, <2>1, <2>2, <3>1
  <2>3. CASE p # c
    BY <1>0, <1>1, <2>1, <2>3 DEF CommitsInv
  <2> QED
    BY <2>1, <2>2, <2>3
<1>7. c \notin landed /\ merged \subseteq landed
  BY <1>0, <1>1, <1>2 DEF CommitsInv
<1>8. \A d \in own' \union landed' : d <= used'
  BY <1>0, <1>1, <1>2
<1>9. NeverMergesTwice'
  BY <1>0, <1>1, <1>6, <1>7 DEF NeverMergesTwice, CommitsInv
<1> QED
  BY <1>0, <1>1, <1>4, <1>5, <1>6, <1>7, <1>8, <1>9 DEF CommitsInv

LEMMA CommitsGrow == ASSUME BranchInv, Grows PROVE CommitsInv'
BY MintCommits DEF Grows

LEMMA CommitsReset ==
    ASSUME BranchInv, OntoBase, UNCHANGED <<patch, used, landed, merged>>
    PROVE  CommitsInv'
<1>1. CommitsInv /\ head' = Base /\ own' = {}
  BY DEF BranchInv, OntoBase
<1>2. Base \notin landed
  BY NIsNat DEF BranchInv, TypeOK, Commits, Base
<1> QED
  BY <1>1, <1>2 DEF CommitsInv, Ahead, InLive, NeverMergesTwice

LEMMA CommitsRebase == ASSUME BranchInv, Rebases PROVE CommitsInv'
<1>1. PICK c \in 0..N, p \in 0..N : Rebase(c, p)
  BY DEF Rebases
<1>2. CASE Ahead
  BY <1>1, <1>2, MintCommits DEF Rebase, Rebases
<1>3. CASE ~Ahead
  BY <1>1, <1>3, CommitsReset DEF Rebase, Rebases, OntoBase
<1> QED
  BY <1>2, <1>3

LEMMA CommitsMerge == ASSUME BranchInv, Merges PROVE CommitsInv'
<1>1. /\ CommitsInv /\ head # Base /\ head \in own
      /\ landed' = landed \union own /\ merged' = merged \union {head}
      /\ UNCHANGED <<patch, used, head, own>>
  BY DEF BranchInv, Merges, FastForward, Mergeable, RecordInv, CommitsInv
<1>2. NeverMergesTwice'
  <2>1. CASE Ahead
    <3>1. \A m \in merged : patch[m] # patch[head]
      BY <1>1, <2>1 DEF CommitsInv
    <3> QED
      BY <1>1, <3>1 DEF CommitsInv, NeverMergesTwice
  <2>2. CASE ~Ahead
    <3>1. head \in merged
      BY <1>1, <2>2 DEF Ahead, InLive, CommitsInv
    <3> QED
      BY <1>1, <3>1 DEF CommitsInv, NeverMergesTwice
  <2> QED
    BY <2>1, <2>2
<1>3. ~Ahead'
  BY <1>1 DEF Ahead, InLive
<1>4. \A d \in own' \union landed' : d <= used'
  BY <1>1 DEF CommitsInv
<1> QED
  BY <1>1, <1>2, <1>3, <1>4 DEF CommitsInv

LEMMA BranchStep == BranchInv /\ [Next]_vars => BranchInv'
<1>1. ASSUME BranchInv, Next PROVE BranchInv'
  <2>1. CommitsInv'
    BY <1>1, BranchMoves, CommitsStay, CommitsGrow, CommitsRebase, CommitsReset,
       CommitsMerge DEF BranchInv, Resets
  <2> QED
    BY <1>1, <2>1, StepTyped, RecordStep DEF BranchInv
<1>2. ASSUME BranchInv, UNCHANGED vars PROVE BranchInv'
  <2>1. CommitsInv'
    BY <1>2, CommitsStay DEF BranchInv, Stays, vars
  <2>2. RecordInv'
    BY <1>2 DEF BranchInv, RecordInv, vars
  <2> QED
    BY <1>2, <2>1, <2>2, StepTyped DEF BranchInv
<1> QED
  BY <1>1, <1>2

LEMMA BranchInit == Init => BranchInv
<1> SUFFICES ASSUME Init PROVE BranchInv
  OBVIOUS
<1>1. RecordInv
  BY DEF Init, RecordInv, NoSha, Base
<1>2. CommitsInv
  BY NIsNat DEF Init, CommitsInv, Ahead, InLive, NeverMergesTwice
<1> QED
  BY <1>1, <1>2, InitTyped DEF BranchInv

\* The merge endpoint and a gate that may ask it again after a lost answer or a
\* failed deploy: main never gets the same patch twice, through any number of
\* rebases, because a rebase only carries the patch of a tip main does not have.
THEOREM MergesOnce == Spec => []NeverMergesTwice
<1>1. BranchInv => NeverMergesTwice
  BY DEF BranchInv, CommitsInv
<1> QED
  BY <1>1, BranchInit, BranchStep, PTL DEF Spec

-----------------------------------------------------------------------------
(* What is parked is the tip *)

\* Nobody but the gate and the work node is inside a node.
LEMMA OthersStayOut ==
    ASSUME MarkQueued \/ MarkRunning \/ EndRun \/ Operator \/ Supervisor \/ World
    PROVE  pc' \in Outside \/ UNCHANGED <<pc, cp, sha, appr, head, dirty, unseen, landed>>
<1> USE DEF gitVars, localVars, shipVars, Outside
<1>1. CASE MarkQueued \/ MarkRunning \/ EndRun
  BY <1>1 DEF MarkQueued, MarkRunning, EndRun
<1>2. CASE Operator
  BY <1>2 DEF Operator, ResumeShipping, ResumeWork, Reopen, CarryOn, OpenPanel,
     MergeApprove, RequestChanges, OperatorEdit, CommandDecision, Decide, Start
<1>3. CASE Supervisor
  BY <1>3 DEF Supervisor, ConcludeLanded, Heal, SweepWorkspace, Parked, Decide, Start
<1>4. CASE World
  BY <1>4 DEF World, StartReview, RecordVerdict, LiveMoves, Crash, Stop, LoseDriver,
     AutoResume, Start
<1> QED
  BY <1>1, <1>2, <1>3, <1>4

LEMMA OutsideIsOut ==
    /\ \A l \in Outside : l # "work" /\ l # "gate" /\ l # "deploy" /\ l # "rebase"
                            /\ l \notin Interior /\ l \notin Shipping
    /\ Shipping \subseteq Interior /\ {"gate", "rebase"} \subseteq Interior
    /\ "work" \notin Interior /\ {"gate", "rebase"} \cap Shipping = {}
BY DEF Outside, Interior, Shipping

LEMMA PlaceOut == ASSUME pc' \in Outside PROVE PlaceInv'
BY OutsideIsOut DEF PlaceInv

LEMMA WorkPlace ==
    ASSUME PlaceInv, Work
    PROVE  PlaceInv' /\ cp.next = "work"
<1>1. cp.next = "work"
  BY DEF PlaceInv, Work, WorkspaceUnavailable, StartWork, AgentEdits, AgentCommits,
     WorkEnds, AtWork
<1>2. CASE WorkspaceUnavailable \/ WorkEnds
  <2>1. pc' \in Outside
    BY <1>2 DEF WorkspaceUnavailable, WorkEnds, AtWork, Outside
  <2> QED
    BY <1>1, <2>1, PlaceOut
<1>3. CASE StartWork \/ AgentEdits \/ AgentCommits
  <2>1. pc' = "work" /\ cp' = cp
    BY <1>3 DEF StartWork, AgentEdits, AgentCommits
  <2> QED
    BY <1>1, <2>1, OutsideIsOut DEF PlaceInv
<1> QED
  BY <1>1, <1>2, <1>3 DEF Work

\* The steps by which the gate goes on.
LEMMA GatePlace ==
    ASSUME TypeOK, RecordInv, head \in own \union {Base}, PlaceInv, Gate, ~Ends
    PROVE  PlaceInv'
<1> USE OutsideIsOut DEF PlaceInv, Clean
<1>1. CASE GateOpens
  <2>1. pc' = "gate" /\ cp' = cp /\ appr' = cp.approved /\ cp.next = "verify"
        /\ ~cp.escalated /\ ~cp.paused
    BY <1>1 DEF GateOpens, AtGate
  <2> QED
    BY <2>1
<1>2. CASE FastPath \/ AskAgain
  <2>1. /\ pc = "gate" /\ pc' = "ask" /\ (dirty => unseen')
        /\ UNCHANGED <<cp, appr, head, dirty>>
        /\ sha' = head \/ sha' = appr
    BY <1>2 DEF FastPath, AskAgain, Approved, Outstanding, Pending, TurnTo, Overlooks,
       gitVars
  <2> QED
    BY <2>1 DEF Shipping
<1>3. CASE Commit
  <2>1. pc = "gate" /\ pc' = "rebase" /\ ~dirty' /\ cp' = cp
    BY <1>3 DEF Commit
  <2> QED
    BY <2>1
<1>4. CASE RebaseCommit
  <2>1. pc = "rebase" /\ UNCHANGED <<cp, dirty, unseen>>
    BY <1>4 DEF RebaseCommit, shipVars
  <2>2. pc' = "ask" /\ sha' = head'
    BY <1>4, RebaseKeeps DEF RebaseCommit, TurnTo
  <2> QED
    BY <2>1, <2>2 DEF Shipping
<1>5. CASE Ask \/ PassReview \/ CIPasses \/ Diverge
  <2>1. /\ pc \in {"ask", "review", "ci", "ship"}
        /\ pc' \in {"review", "ci", "ship", "diverged"}
        /\ UNCHANGED <<cp, sha, appr, head, dirty, unseen>>
    BY <1>5 DEF Ask, PassReview, Answered, CIPasses, Diverge, localVars, gitVars, shipVars
  <2> QED
    BY <2>1 DEF Shipping
<1>6. CASE Merge
  <2>1. /\ pc = "ship" /\ pc' = "deploy"
        /\ UNCHANGED <<cp, sha, appr, head, dirty, unseen>> /\ landed' = landed \union own
    BY <1>6 DEF Merge, FastForward, localVars
  <2>2. head # Base
    BY <1>6 DEF Merge, Mergeable, RecordInv
  <2> QED
    BY <2>1, <2>2 DEF Shipping
<1>7. CASE RebaseDiverged
  <2>1. pc = "diverged" /\ UNCHANGED <<cp, dirty, unseen>>
    BY <1>7 DEF RebaseDiverged, shipVars
  <2>2. pc' = "ask" /\ sha' = head'
    BY <1>7, RebaseKeeps DEF RebaseDiverged, TurnTo
  <2> QED
    BY <2>1, <2>2 DEF Shipping
<1> QED
  BY <1>1, <1>2, <1>3, <1>4, <1>5, <1>6, <1>7 DEF Gate, Ends

LEMMA PlaceStep == ASSUME BranchInv, PlaceInv, Next PROVE PlaceInv'
<1>1. CASE Ends
  BY <1>1, EndsMove, PlaceOut DEF Outside
<1>2. CASE Gate /\ ~Ends
  BY <1>2, GatePlace DEF BranchInv, CommitsInv
<1>3. CASE MarkQueued \/ MarkRunning \/ EndRun \/ Operator \/ Supervisor \/ World
  BY <1>3, OthersStayOut, PlaceOut DEF PlaceInv, Clean
<1> QED
  BY <1>1, <1>2, <1>3, WorkPlace DEF Next, Driver

\* The gate's node runs for a checkpoint that says so.
LEMMA GateNext == ASSUME PlaceInv, Gate PROVE cp.next = "verify"
<1>1. (pc = "next" /\ cp.next = "verify") \/ pc \in Interior
  <2>1. CASE \/ GateDeclines \/ GateRefusesEdits \/ GateOpens \/ FastPath \/ ChecksFail
             \/ ConcludeInLive \/ AskAgain \/ NudgeCoder \/ NoDiff \/ HoldCommit
             \/ Commit \/ RebaseCommit \/ RebaseConflicts
    BY <2>1 DEF GateDeclines, GateRefusesEdits, GateOpens, FastPath, ChecksFail,
       ConcludeInLive, AskAgain, NudgeCoder, NoDiff, HoldCommit, Commit, RebaseCommit,
       RebaseConflicts, AtGate, Outstanding, Interior
  <2>2. CASE \/ Ask \/ AskFails \/ ReviewTimesOut \/ Rejected \/ Park \/ PassReview
             \/ CIPasses \/ CIFails \/ CIStops
    BY <2>2 DEF Ask, AskFails, ReviewTimesOut, Rejected, Park, PassReview, CIPasses,
       CIFails, CIStops, Answered, Interior
  <2>3. CASE \/ Merge \/ MergeAnswerLost \/ ShipFails \/ OpenPullRequest \/ Diverge
             \/ RebaseDiverged \/ DivergedConflicts \/ Deploy \/ DeployFails \/ GateThrows
    BY <2>3 DEF Merge, MergeAnswerLost, ShipFails, OpenPullRequest, Diverge,
       RebaseDiverged, DivergedConflicts, Deploy, DeployFails, GateThrows, Interior
  <2> QED
    BY <2>1, <2>2, <2>3 DEF Gate
<1> QED
  BY <1>1 DEF PlaceInv

LEMMA ParkedPhase ==
    ASSUME ParkInv, cp.parked # NoSha
    PROVE  PhaseOf(cp) = "awaiting_merge" /\ ~cp.paused
BY DEF ParkInv, PhaseOf

\* What is parked stays as it is until somebody takes it up.
LEMMA OthersPark ==
    ASSUME TypeOK, ParkInv, cp'.parked # NoSha,
           MarkQueued \/ MarkRunning \/ EndRun \/ Operator \/ Supervisor \/ World
    PROVE  /\ cp'.parked = cp.parked /\ cp'.next = cp.next
           /\ cp'.escalated = cp.escalated /\ cp'.paused = cp.paused
           /\ cp'.committed = cp.committed /\ cp'.seen = cp.seen
           /\ cp'.verdict = cp.verdict
           /\ UNCHANGED <<head, unseen>> /\ (dirty' => dirty) /\ ready \subseteq ready'
<1>0. cp \in Checkpoints
  BY BaseFacts
<1>1. cp.parked # NoSha
  <2>1. CASE MarkQueued \/ MarkRunning \/ EndRun
    BY <2>1 DEF MarkQueued, MarkRunning, EndRun
  <2>2. CASE Operator \/ Supervisor
    BY <2>2, OperatorKeeps, SupervisorKeeps DEF Kept
  <2>3. CASE AutoResume
    BY <1>0, <2>3 DEF AutoResume, Start, Checkpoints
  <2>4. CASE StartReview \/ RecordVerdict \/ LiveMoves \/ Crash \/ Stop
    BY <2>4 DEF StartReview, RecordVerdict, LiveMoves, Crash, Stop, LoseDriver
  <2> QED
    BY <2>1, <2>2, <2>3, <2>4 DEF World
<1>2. PhaseOf(cp) = "awaiting_merge" /\ ~cp.paused
  BY <1>1, ParkedPhase
<1> USE DEF gitVars, shipVars
<1>3. CASE MarkQueued \/ MarkRunning \/ EndRun
  <2>1. cp' = cp /\ head' = head /\ ready' = ready /\ unseen' = unseen
    BY <1>3 DEF MarkQueued, MarkRunning, EndRun
  <2>2. dirty' => dirty
    <3>1. CASE MarkQueued \/ MarkRunning
      BY <3>1 DEF MarkQueued, MarkRunning
    <3>2. CASE EndRun
      BY <3>2 DEF EndRun
    <3> QED
      BY <1>3, <3>1, <3>2
  <2> QED
    BY <2>1, <2>2
<1>4. CASE Operator
  <2>1. ~(MergeApprove \/ RequestChanges \/ OperatorEdit)
    <3> SUFFICES ASSUME MergeApprove \/ RequestChanges \/ OperatorEdit PROVE FALSE
      OBVIOUS
    <3>1. CASE MergeApprove
      BY <1>0, <3>1 DEF MergeApprove, Decide, Start, Checkpoints
    <3>2. CASE RequestChanges \/ OperatorEdit
      BY <1>0, <3>2 DEF RequestChanges, OperatorEdit, Decide, Start, SentBack, Void,
         Fresh, Checkpoints
    <3> QED
      BY <3>1, <3>2
  <2>2. OpenPanel
    BY <1>2, <1>4, <2>1 DEF Operator, ResumeShipping, ResumeWork, Reopen, CarryOn,
       CommandDecision
  <2> QED
    BY <2>2 DEF OpenPanel
<1>5. CASE Supervisor
  <2>1. ~ConcludeLanded
    BY <1>0 DEF ConcludeLanded, Void, Healthy, Checkpoints
  <2>2. SweepWorkspace
    BY <1>2, <1>5, <2>1 DEF Supervisor, Heal
  <2> QED
    BY <2>2 DEF SweepWorkspace
<1>6. CASE World
  <2>1. CASE AutoResume
    BY <1>0, <2>1 DEF AutoResume, Start, Checkpoints
  <2>2. CASE StartReview \/ RecordVerdict \/ LiveMoves \/ Crash \/ Stop
    BY <2>2 DEF StartReview, RecordVerdict, LiveMoves, Crash, Stop, LoseDriver
  <2> QED
    BY <1>6, <2>1, <2>2 DEF World
<1> QED
  BY <1>3, <1>4, <1>5, <1>6

LEMMA ParkStep == ASSUME WaitInv, Next PROVE ParkInv'
<1> SUFFICES ASSUME cp'.parked # NoSha PROVE ParkInv'
  BY DEF ParkInv
<1>0. TypeOK /\ RecordInv /\ PlaceInv /\ ParkInv
  BY DEF WaitInv, BranchInv
<1>1. CASE Gate
  <2>1. cp.parked = NoSha
    BY <1>0, <1>1, GateNext DEF ParkInv
  <2>2. Park /\ Parks(cp')
    BY <1>0, <1>1, <2>1, GateKeeps, ParkParks DEF Kept
  <2>3. /\ pc = "review" /\ sha # NoSha /\ appr # sha
        /\ sha \in ready \/ Disputed(rec.verdict)
    BY <1>0, <2>2 DEF Park, Answered, Ships, NeedsFinalLook, RecordInv
  <2>4. sha = head /\ Clean /\ ~cp.escalated /\ ~cp.paused
    BY <1>0, <2>3, OutsideIsOut DEF PlaceInv, Shipping
  <2>5. UNCHANGED <<head, dirty, ready, unseen>>
    BY <2>2 DEF Park, gitVars, shipVars
  <2> QED
    BY <2>2, <2>3, <2>4, <2>5 DEF Parks, ParkInv, Clean
<1>2. CASE Work
  BY <1>0, <1>2, WorkPlace, WorkKeeps DEF ParkInv, Kept
<1>3. CASE MarkQueued \/ MarkRunning \/ EndRun \/ Operator \/ Supervisor \/ World
  <2>1. cp.parked # NoSha
    BY <1>0, <1>3, OthersPark
  <2> QED
    BY <1>0, <1>3, <2>1, OthersPark DEF ParkInv, Clean
<1> QED
  BY <1>1, <1>2, <1>3 DEF Next, Driver

LEMMA WaitStep == WaitInv /\ [Next]_vars => WaitInv'
<1>1. ASSUME WaitInv, Next PROVE WaitInv'
  BY <1>1, BranchStep, PlaceStep, ParkStep DEF WaitInv
<1>2. ASSUME WaitInv, UNCHANGED vars PROVE WaitInv'
  <2>1. PlaceInv' /\ ParkInv'
    BY <1>2 DEF WaitInv, PlaceInv, ParkInv, Clean, vars
  <2> QED
    BY <1>2, <2>1, BranchStep DEF WaitInv
<1> QED
  BY <1>1, <1>2

LEMMA WaitInit == Init => WaitInv
BY BranchInit, OutsideIsOut DEF Init, WaitInv, PlaceInv, ParkInv, Outside

\* Parking, and whoever meets a parked task: the operator is only ever asked
\* about the tip of the branch, called READY or -- on a benchmark -- with the
\* reviewer's breaker as its verdict, and with nothing newer in the workspace when
\* git said so, however the gate came to that commit.
THEOREM ParkingIsTrue == Spec => []ParkedIsTip
<1>1. WaitInv => ParkedIsTip
  BY DEF WaitInv, ParkInv, ParkedIsTip, Clean
<1> QED
  BY <1>1, WaitInit, WaitStep, PTL DEF Spec

-----------------------------------------------------------------------------
(* What the episode says *)

\* A result c of the gate with its outcome o: the pass did not end the task, or
\* what it says is so.
Said(c, o) ==
    \/ (c.escalated \/ c.paused \/ c.feedback) /\ o = episode
    \/ /\ o = "shipped"
       /\ c.parked # NoSha \/ landed' \union pushed' # {} \/ HasAlert \/ head = Base
    \/ o = "done_no_changes" /\ NothingLeft'

Says(c, o) == c \in Checkpoints /\ Finish(c, o) /\ Said(c, o)

LEMMA DoneSays ==
    ASSUME TypeOK, NEW c \in Checkpoints, NEW o, Done(c, o), Said(c, o)
    PROVE  \E d : Says(d, o)
<1> DEFINE r == IF retry # NoSha THEN retry ELSE c.retried
           d == [c EXCEPT !.edits = NoSha, !.retried = r]
<1>1. r \in MaybeSha
  BY DEF TypeOK, Checkpoints
<1>2. /\ d \in Checkpoints /\ d.escalated = c.escalated /\ d.paused = c.paused
      /\ d.feedback = c.feedback /\ d.parked = c.parked
  BY <1>1, ShaTypes DEF Checkpoints
<1>3. Finish(d, o)
  BY DEF Done
<1> HIDE DEF d
<1> QED
  BY <1>2, <1>3 DEF Said, Says

LEMMA ThrowSays == ASSUME TypeOK, Throw PROVE \E d, o : Says(d, o)
<1>1. PICK w \in {"gateInfra", "other"} :
        Finish([Escalate(cp, w) EXCEPT !.edits = NoSha], episode)
  BY DEF Throw
<1>2. Escalate(cp, w) \in Checkpoints /\ Escalate(cp, w).escalated
  <2>1. cp \in Checkpoints /\ w \in Whys
    BY BaseFacts
  <2> QED
    BY <2>1, EscalateType DEF Escalate, Checkpoints
<1>3. /\ [Escalate(cp, w) EXCEPT !.edits = NoSha] \in Checkpoints
      /\ [Escalate(cp, w) EXCEPT !.edits = NoSha].escalated
  BY <1>2, ShaTypes DEF Checkpoints
<1> QED
  BY <1>1, <1>3 DEF Says, Said

\* What goes back to the agent or to a human says nothing new.
LEMMA ResultsSaid ==
    ASSUME NEW c \in Checkpoints, NEW s \in MaybeSha, NEW w \in Whys
    PROVE  /\ Said(LoopBack(c), episode) /\ Said(Escalate(c, w), episode)
           /\ Said([LoopBack(c) EXCEPT !.committed = s], episode)
           /\ Said([LoopBack(c) EXCEPT !.approved = NoSha], episode)
           /\ Said([LoopBack(c) EXCEPT !.parked = NoSha], episode)
           /\ Said([LoopBack(c) EXCEPT !.nodiff = 1], episode)
<1>1. LoopBack(c) \in Checkpoints /\ LoopBack(c).feedback
  BY LoopBackType DEF LoopBack, Checkpoints
<1>2. Escalate(c, w).escalated
  BY DEF Escalate, Checkpoints
<1>3. \A d \in Checkpoints : d.feedback =>
        /\ [d EXCEPT !.committed = s].feedback
        /\ [d EXCEPT !.approved = NoSha].feedback
        /\ [d EXCEPT !.parked = NoSha].feedback
        /\ [d EXCEPT !.nodiff = 1].feedback
  BY DEF Checkpoints
<1> QED
  BY <1>1, <1>2, <1>3 DEF Said

LEMMA EndsSay ==
    ASSUME TypeOK, RecordInv, PlaceInv, Ends
    PROVE  \E c, o : Says(c, o)
<1> USE BaseFacts
<1>0. /\ Reviewed \in Checkpoints /\ Passed \in Checkpoints
      /\ Void(Passed) \in Checkpoints
      /\ [cp EXCEPT !.committed = sha] \in Checkpoints
  BY ReviewedType, VoidType, ResultTypes
<1>1. CASE ChecksFail \/ NudgeCoder \/ HoldCommit \/ RebaseConflicts
  <2>1. PICK c \in Checkpoints, o \in Episodes : Done(c, o) /\ Said(c, o)
    <3>1. /\ LoopBack(cp) \in Checkpoints /\ Said(LoopBack(cp), episode)
          /\ Escalate(cp, "other") \in Checkpoints /\ Said(Escalate(cp, "other"), episode)
      BY ResultsSaid, ResultTypes, LoopBackType
    <3>2. \A s \in MaybeSha : /\ [LoopBack(cp) EXCEPT !.committed = s] \in Checkpoints
                             /\ Said([LoopBack(cp) EXCEPT !.committed = s], episode)
      BY ResultsSaid, ResultTypes
    <3> QED
      BY <1>1, <3>1, <3>2 DEF ChecksFail, NudgeCoder, HoldCommit, RebaseConflicts
  <2> QED
    BY <2>1, DoneSays
<1>2. CASE ConcludeInLive
  <2> DEFINE c == [cp EXCEPT !.committed = NoSha, !.parked = NoSha, !.approved = NoSha,
                            !.seen = Pending, !.verdict = "READY"]
  <2>1. c \in Checkpoints
    BY ShaTypes DEF Checkpoints, Verdicts
  <2>2. head = Base \/ head \in landed
    BY <1>2 DEF ConcludeInLive, Pending, InLive
  <2>3. Said(c, "shipped")
    BY <1>2, <2>2 DEF ConcludeInLive, gitVars, Said
  <2>4. Done(c, "shipped")
    BY <1>2 DEF ConcludeInLive
  <2> HIDE DEF c
  <2> QED
    BY <2>1, <2>3, <2>4, DoneSays
<1>3. CASE NoDiff
  <2>1. NothingLeft'
    <3>1. head # NoSha
      BY NIsNat DEF NoSha
    <3>2. (~Ahead /\ unseen' = dirty) \/ unseen'
      BY <1>3, <3>1 DEF NoDiff, NothingToShip, Overlooks, Pending
    <3>3. UNCHANGED <<head, landed, dirty>>
      BY <1>3 DEF NoDiff, gitVars
    <3> QED
      BY <3>2, <3>3 DEF NothingLeft, Ahead, InLive
  <2>2. 0 \in 0..1 /\ 1 \in 0..1
    OBVIOUS
  <2>3. \A d \in Checkpoints : /\ [d EXCEPT !.nodiff = 0] \in Checkpoints
                               /\ [d EXCEPT !.nodiff = 1] \in Checkpoints
    BY <2>2 DEF Checkpoints
  <2>4. Said([cp EXCEPT !.nodiff = 0], "done_no_changes")
    BY <2>1 DEF Said
  <2>5. PICK c \in Checkpoints, o \in Episodes : Done(c, o) /\ Said(c, o)
    BY <1>3, <2>3, <2>4, ResultsSaid, LoopBackType DEF NoDiff
  <2> QED
    BY <2>5, DoneSays
<1>4. CASE AskFails \/ ReviewTimesOut \/ CIFails \/ CIStops \/ ShipFails
           \/ DivergedConflicts \/ DeployFails \/ Rejected
  <2>1. PICK c \in Checkpoints, o \in Episodes : Done(c, o) /\ Said(c, o)
    BY <1>0, <1>4, ResultsSaid, ResultTypes, EscalateType, LoopBackType
       DEF AskFails, ReviewTimesOut, CIFails, CIStops, ShipFails,
           DivergedConflicts, DeployFails, Rejected
  <2> QED
    BY <2>1, DoneSays
<1>5. CASE Park
  <2>1. sha # NoSha
    BY <1>5 DEF Park, Answered, RecordInv
  <2>2. [Reviewed EXCEPT !.parked = sha] \in Checkpoints
        /\ [Reviewed EXCEPT !.parked = sha].parked = sha
    BY <1>0 DEF Checkpoints
  <2>3. Said([Reviewed EXCEPT !.parked = sha], "shipped")
    BY <2>1, <2>2 DEF Said
  <2> QED
    BY <1>5, <2>2, <2>3, DoneSays DEF Park
<1>6. CASE OpenPullRequest \/ Deploy
  <2>1. landed' \union pushed' # {}
    BY <1>6 DEF OpenPullRequest, Deploy, PlaceInv, gitVars
  <2>2. Said([Void(Passed) EXCEPT !.committed = NoSha, !.parked = NoSha], "shipped")
    BY <2>1 DEF Said
  <2> QED
    BY <1>0, <1>6, <2>2, ResultTypes, DoneSays DEF OpenPullRequest, Deploy
<1>7. CASE MergeAnswerLost \/ GateThrows
  BY <1>7, ThrowSays DEF MergeAnswerLost, GateThrows
<1>8. CASE GateDeclines
  <2>1. CASE (cp.escalated \/ cp.paused) /\ Finish(cp, episode)
    BY <2>1 DEF Says, Said
  <2>2. CASE Finish(Escalate(cp, "other"), episode)
    BY <2>2, ResultsSaid, EscalateType, ShaTypes DEF Says
  <2>3. CASE HasAlert /\ Finish([cp EXCEPT !.committed = NoSha, !.parked = NoSha,
                                          !.approved = NoSha], "shipped")
    BY <2>3, ResultTypes, ShaTypes DEF Says, Said
  <2> QED
    BY <1>8, <2>1, <2>2, <2>3 DEF GateDeclines
<1>9. CASE GateRefusesEdits
  <2>1. Escalate(cp, "other") \in Checkpoints /\ Escalate(cp, "other").escalated
    BY EscalateType DEF Escalate, Checkpoints
  <2>2. /\ [Escalate(cp, "other") EXCEPT !.edits = NoSha] \in Checkpoints
        /\ [Escalate(cp, "other") EXCEPT !.edits = NoSha].escalated
    BY <2>1, ShaTypes DEF Checkpoints
  <2> QED
    BY <1>9, <2>2 DEF GateRefusesEdits, Says, Said
<1> QED
  BY <1>1, <1>2, <1>3, <1>4, <1>5, <1>6, <1>7, <1>8, <1>9 DEF Ends

LEMMA SaysTruly ==
    ASSUME NEW c, NEW o, Says(c, o)
    PROVE  /\ cp'.escalated => episode' = "escalated"
           /\ episode' = "done_no_changes" /\ cp'.next = "end" /\ ~cp'.escalated
                /\ ~cp'.paused /\ cp'.parked = NoSha => NothingLeft'
           /\ episode' = "shipped" /\ episode # "shipped"
                => landed' \union pushed' # {} \/ HasAlert \/ head = Base
<1>1. /\ c \in Checkpoints /\ Said(c, o) /\ cp' = [c EXCEPT !.next = Route(c)]
      /\ episode' = IF c.escalated THEN "escalated"
                    ELSE IF Terminal(c) THEN o ELSE episode
  BY DEF Says, Finish
<1>2. /\ cp'.next = Route(c) /\ cp'.escalated = c.escalated /\ cp'.paused = c.paused
      /\ cp'.parked = c.parked
  BY <1>1 DEF Checkpoints
<1>3. cp'.next = "end" /\ ~cp'.escalated /\ ~cp'.paused /\ cp'.parked = NoSha
        => ~c.feedback /\ Terminal(c)
  BY <1>2 DEF Route, Terminal
<1>4. Terminal(c) /\ ~c.escalated => c.parked = NoSha /\ ~c.paused /\ ~c.feedback
  BY DEF Terminal
<1>5. Terminal(c) /\ ~c.escalated /\ o = "done_no_changes" => NothingLeft'
  BY <1>1, <1>4 DEF Said
<1>6. Terminal(c) /\ ~c.escalated /\ o = "shipped"
        => landed' \union pushed' # {} \/ HasAlert \/ head = Base
  BY <1>1, <1>4 DEF Said
<1>7. CASE c.escalated
  BY <1>1, <1>2, <1>7
<1>8. CASE ~c.escalated
  BY <1>1, <1>2, <1>3, <1>5, <1>6, <1>8
<1> QED
  BY <1>7, <1>8

-----------------------------------------------------------------------------
(* The ends of a task *)

LEMMA GateGoesOn ==
    ASSUME Gate, ~Ends
    PROVE  pc' \in Interior /\ UNCHANGED <<cp, episode, status>>
<1>1. CASE GateOpens \/ FastPath \/ AskAgain \/ Commit \/ RebaseCommit
  BY <1>1 DEF GateOpens, FastPath, AskAgain, Commit, RebaseCommit, TurnTo, Interior
<1>2. CASE Ask \/ PassReview \/ CIPasses \/ Merge \/ Diverge \/ RebaseDiverged
  BY <1>2 DEF Ask, PassReview, CIPasses, Merge, FastForward, Diverge, RebaseDiverged,
     TurnTo, Interior
<1> QED
  BY <1>1, <1>2 DEF Gate, Ends

\* The Store is written by the run around the graph, not by the gate.
LEMMA EndsQuietly == ASSUME Ends PROVE UNCHANGED status
<1>1. CASE \/ GateDeclines \/ GateRefusesEdits \/ ChecksFail \/ ConcludeInLive
           \/ NudgeCoder \/ NoDiff \/ HoldCommit \/ RebaseConflicts
  BY <1>1 DEF GateDeclines, GateRefusesEdits, ChecksFail, ConcludeInLive, NudgeCoder,
     NoDiff, HoldCommit, RebaseConflicts
<1>2. CASE \/ AskFails \/ ReviewTimesOut \/ Rejected \/ Park \/ CIFails \/ CIStops
           \/ MergeAnswerLost
  BY <1>2 DEF AskFails, ReviewTimesOut, Rejected, Park, CIFails, CIStops,
     MergeAnswerLost, FastForward
<1>3. CASE \/ ShipFails \/ OpenPullRequest \/ DivergedConflicts \/ Deploy \/ DeployFails
           \/ GateThrows
  BY <1>3 DEF ShipFails, OpenPullRequest, DivergedConflicts, Deploy, DeployFails,
     GateThrows
<1> QED
  BY <1>1, <1>2, <1>3 DEF Ends

LEMMA GateRuns == ASSUME Gate PROVE pc \notin {"off", "starting", "queued"}
<1> USE DEF Interior
<1>1. CASE \/ GateDeclines \/ GateRefusesEdits \/ GateOpens \/ FastPath \/ ChecksFail
           \/ ConcludeInLive \/ AskAgain \/ NudgeCoder \/ NoDiff \/ HoldCommit
           \/ Commit \/ RebaseCommit \/ RebaseConflicts
  BY <1>1 DEF GateDeclines, GateRefusesEdits, GateOpens, FastPath, ChecksFail,
     ConcludeInLive, AskAgain, NudgeCoder, NoDiff, HoldCommit, Commit, RebaseCommit,
     RebaseConflicts, AtGate, Outstanding
<1>2. CASE \/ Ask \/ AskFails \/ ReviewTimesOut \/ Rejected \/ Park \/ PassReview
           \/ CIPasses \/ CIFails \/ CIStops
  BY <1>2 DEF Ask, AskFails, ReviewTimesOut, Rejected, Park, PassReview, CIPasses,
     CIFails, CIStops, Answered
<1>3. CASE \/ Merge \/ MergeAnswerLost \/ ShipFails \/ OpenPullRequest \/ Diverge
           \/ RebaseDiverged \/ DivergedConflicts \/ Deploy \/ DeployFails \/ GateThrows
  BY <1>3 DEF Merge, MergeAnswerLost, ShipFails, OpenPullRequest, Diverge,
     RebaseDiverged, DivergedConflicts, Deploy, DeployFails, GateThrows
<1> QED
  BY <1>1, <1>2, <1>3 DEF Gate

LEMMA GateSaid == ASSUME EndInv, Gate PROVE SaidInv'
<1>0. TypeOK /\ RecordInv /\ PlaceInv /\ SaidInv
  BY DEF EndInv, WaitInv, BranchInv
<1>1. status = "running" /\ cp.next = "verify"
  BY <1>0, GateRuns, GateNext DEF SaidInv
<1>2. CASE Ends
  <2>1. status' = "running" /\ pc' = "next"
    BY <1>1, <1>2, EndsQuietly, EndsMove
  <2>2. PICK c, o : Says(c, o)
    BY <1>0, <1>2, EndsSay
  <2> QED
    BY <2>1, <2>2, SaysTruly DEF SaidInv
<1>3. CASE ~Ends
  BY <1>1, <1>3, GateGoesOn DEF SaidInv, Interior
<1> QED
  BY <1>2, <1>3

LEMMA WorkSaid == ASSUME EndInv, Work PROVE SaidInv'
<1>0. TypeOK /\ PlaceInv /\ SaidInv
  BY DEF EndInv, WaitInv, BranchInv
<1>1. cp.next = "work"
  BY <1>0, WorkPlace
<1>2. pc \in {"next", "work"} /\ pc' \in {"next", "work"} /\ UNCHANGED <<status, episode>>
  BY DEF Work, WorkspaceUnavailable, StartWork, AgentEdits, AgentCommits, WorkEnds, AtWork
<1>3. cp'.next # "end"
  <2>1. CASE WorkspaceUnavailable \/ WorkEnds
    <3>1. \A c \in Checkpoints : [c EXCEPT !.next = "verify"].next = "verify"
      BY DEF Checkpoints
    <3>2. Escalate(cp, "other") \in Checkpoints /\ cp \in Checkpoints
      BY <1>0, BaseFacts, EscalateType
    <3> QED
      BY <2>1, <3>1, <3>2 DEF WorkspaceUnavailable, WorkEnds, Checkpoints
  <2>2. CASE StartWork \/ AgentEdits \/ AgentCommits
    BY <1>1, <2>2 DEF StartWork, AgentEdits, AgentCommits
  <2> QED
    BY <2>1, <2>2 DEF Work
<1>4. status = "running"
  BY <1>0, <1>2 DEF SaidInv
<1> QED
  BY <1>2, <1>3, <1>4 DEF SaidInv

\* A checkpoint about the same commit; one that nobody has escalated; one whose
\* next node is not the end.
Same(c)  == c \in Checkpoints /\ c.committed = cp.committed
Well(c)  == Same(c) /\ ~c.escalated
Going(c) == c.feedback \/ (c.approved # NoSha /\ c.committed # NoSha)

\* A patch c of the checkpoint and the node n that comes next: at the end only
\* where the checkpoint was, or for a command that waits for its decision.
Restarts(c, n) ==
    /\ Same(c)
    /\ \/ n # "end"
       \/ ~c.escalated /\ (c.paused \/ c.parked # NoSha)
       \/ /\ n = cp.next /\ c.escalated = cp.escalated
          /\ c.paused = cp.paused /\ c.parked = cp.parked

LEMMA SameEdits ==
    ASSUME NEW c, Same(c)
    PROVE  /\ Same(Fresh(c)) /\ Same(Void(c)) /\ Well(Healthy(c))
           /\ Same([c EXCEPT !.left = @ + Grant])
           /\ Same([c EXCEPT !.feedback = TRUE]) /\ Going([c EXCEPT !.feedback = TRUE])
           /\ ~c.escalated => /\ Well(Fresh(c)) /\ Well(Void(c))
                              /\ Well([c EXCEPT !.left = @ + Grant])
                              /\ Well([c EXCEPT !.feedback = TRUE])
<1>1. c \in Checkpoints /\ c.committed = cp.committed
  BY DEF Same
<1>2. /\ Void(c) \in Checkpoints /\ Healthy(c) \in Checkpoints
      /\ Fresh(c) \in Checkpoints /\ [c EXCEPT !.left = @ + Grant] \in Checkpoints
      /\ [c EXCEPT !.feedback = TRUE] \in Checkpoints
  BY <1>1, VoidType, HealthyType, FreshType, GrantType DEF Checkpoints
<1>3. /\ Void(c).committed = c.committed /\ Void(c).escalated = c.escalated
      /\ Fresh(c).committed = c.committed /\ Fresh(c).escalated = c.escalated
      /\ Healthy(c).committed = c.committed /\ ~Healthy(c).escalated
  BY <1>1 DEF Void, Fresh, Healthy, Checkpoints
<1>4. \A l : /\ [c EXCEPT !.left = l].committed = c.committed
             /\ [c EXCEPT !.left = l].escalated = c.escalated
  BY <1>1 DEF Checkpoints
<1>5. /\ [c EXCEPT !.feedback = TRUE].committed = c.committed
      /\ [c EXCEPT !.feedback = TRUE].escalated = c.escalated
      /\ [c EXCEPT !.feedback = TRUE].feedback
  BY <1>1 DEF Checkpoints
<1> QED
  BY <1>1, <1>2, <1>3, <1>4, <1>5 DEF Same, Well, Going

LEMMA SentBackWell ==
    ASSUME NEW c, Well(c)
    PROVE  Well(SentBack(c)) /\ Going(SentBack(c))
<1>1. Well(Fresh(c))
  BY SameEdits DEF Well
<1>2. Well(Void(Fresh(c)))
  BY <1>1, SameEdits DEF Well
<1> QED
  BY <1>2, SameEdits DEF Well, SentBack

LEMMA RouteRestarts ==
    ASSUME NEW c, Well(c), Going(c)
    PROVE  Restarts(c, Route(c))
BY DEF Restarts, Well, Going, Route

LEMMA StartSaid ==
    ASSUME EndInv, NEW c, NEW n, Start(c, n), Restarts(c, n)
    PROVE  SaidInv'
<1>1. /\ c \in Checkpoints /\ c.committed = cp.committed /\ cp' = [c EXCEPT !.next = n]
      /\ pc' = "starting" /\ UNCHANGED <<status, episode, head, landed, dirty, unseen>>
  BY DEF Start, Restarts, Same, gitVars, shipVars
<1>2. /\ cp'.next = n /\ cp'.escalated = c.escalated /\ cp'.paused = c.paused
      /\ cp'.parked = c.parked /\ cp'.committed = cp.committed
  BY <1>1 DEF Checkpoints
<1>3. (Clean => Clean') /\ (NothingLeft => NothingLeft')
  BY <1>1 DEF Clean, NothingLeft, Ahead, InLive
<1> QED
  BY <1>1, <1>2, <1>3 DEF Restarts, EndInv, SaidInv

LEMMA OperatorStarts ==
    ASSUME EndInv, Operator, ~OpenPanel
    PROVE  \E c, n : Start(c, n) /\ Restarts(c, n)
<1>0. TypeOK /\ ParkInv /\ Same(cp)
  BY BaseFacts DEF EndInv, WaitInv, BranchInv, Same
<1>1. Same(Granted) /\ Well(Healthy(Granted)) /\ (~cp.escalated => Well(Granted))
  BY <1>0, SameEdits DEF Granted
<1>2. PhaseOf(cp) \in {"done", "awaiting_merge", "awaiting_approval"} => ~cp.escalated
  BY DEF PhaseOf
<1>3. CASE ResumeShipping
  <2>1. Start(Healthy(Granted), Route(Healthy(Granted)))
    BY <1>3 DEF ResumeShipping, Decide
  <2>2. Healthy(Granted).approved = cp.approved
    BY <1>0 DEF Healthy, Granted, Same, Checkpoints
  <2>3. Going(Healthy(Granted))
    BY <1>1, <1>3, <2>2 DEF ResumeShipping, Going, Well, Same
  <2> QED
    BY <1>1, <2>1, <2>3, RouteRestarts
<1>4. CASE \E m \in BOOLEAN : ResumeWork(m)
  <2> DEFINE c == SentBack(Healthy(Granted))
  <2>1. Well(c) /\ Going(c)
    BY <1>1, SentBackWell
  <2>2. Start(c, Route(c))
    BY <1>4 DEF ResumeWork, Decide
  <2> HIDE DEF c
  <2> QED
    BY <2>1, <2>2, RouteRestarts
<1>5. CASE Reopen
  <2> DEFINE c == SentBack(Granted)
  <2>1. Well(c) /\ Going(c)
    BY <1>1, <1>2, <1>5, SentBackWell DEF Reopen
  <2>2. Start(c, Route(c))
    BY <1>5 DEF Reopen, Decide
  <2> HIDE DEF c
  <2> QED
    BY <2>1, <2>2, RouteRestarts
<1>6. CASE CarryOn
  <2>1. Start(Granted, cp.next)
    BY <1>6 DEF CarryOn, Decide
  <2>2. /\ Granted.escalated = cp.escalated /\ Granted.paused = cp.paused
        /\ Granted.parked = cp.parked
    BY <1>0 DEF Granted, Same, Checkpoints
  <2> QED
    BY <1>1, <2>1, <2>2 DEF Restarts
<1>7. CASE MergeApprove
  <2> DEFINE c == [cp EXCEPT !.approved = cp.parked, !.parked = NoSha]
  <2>1. Start(c, Route(c)) /\ cp.parked # NoSha /\ ~cp.escalated
    BY <1>2, <1>7 DEF MergeApprove, Decide
  <2>2. c \in Checkpoints
    BY <1>0, ShaTypes DEF Same, Checkpoints
  <2>3. /\ c.approved = cp.parked /\ c.committed = cp.committed
        /\ c.escalated = cp.escalated
    BY <1>0 DEF Same, Checkpoints
  <2>4. cp.committed = cp.parked
    BY <1>0, <2>1 DEF ParkInv
  <2> HIDE DEF c
  <2>5. Well(c) /\ Going(c)
    BY <2>1, <2>2, <2>3, <2>4 DEF Well, Same, Going
  <2> QED
    BY <2>1, <2>5, RouteRestarts
<1>8. CASE RequestChanges
  <2> DEFINE v == SentBack(cp)
             c == [v EXCEPT !.parked = NoSha]
  <2>1. Well(cp)
    BY <1>0, <1>2, <1>8 DEF RequestChanges, Well
  <2>2. Well(v) /\ v.feedback
    <3>1. Void(Fresh(cp)) \in Checkpoints
      BY <1>0, FreshType, VoidType DEF Same
    <3> QED
      BY <2>1, <3>1, SentBackWell DEF SentBack, Checkpoints
  <2>3. Start(c, Route(c))
    BY <1>8 DEF RequestChanges, Decide
  <2> HIDE DEF v
  <2>4. Well(c) /\ Going(c)
    BY <2>2, ShaTypes DEF Well, Same, Going, Checkpoints
  <2> HIDE DEF c
  <2> QED
    BY <2>3, <2>4, RouteRestarts
<1>9. CASE OperatorEdit
  <2> DEFINE v == Void(Fresh(cp))
             c == [v EXCEPT !.edits = cp.parked, !.parked = NoSha]
  <2>1. Same(Fresh(cp))
    BY <1>0, SameEdits
  <2>2. Same(v)
    BY <2>1, SameEdits
  <2>3. Start(c, "verify")
    BY <1>9 DEF OperatorEdit, Decide
  <2> HIDE DEF v
  <2>4. Same(c)
    BY <1>0, <2>2, ShaTypes DEF Same, Checkpoints
  <2> HIDE DEF c
  <2> QED
    BY <2>3, <2>4 DEF Restarts
<1>10. CASE CommandDecision
  <2> DEFINE c == [cp EXCEPT !.paused = FALSE, !.decision = TRUE, !.feedback = TRUE]
  <2>1. Start(c, Route(c)) /\ ~cp.escalated
    BY <1>2, <1>10 DEF CommandDecision, Decide
  <2>2. Well(c) /\ Going(c)
    BY <1>0, <2>1 DEF Well, Same, Going, Checkpoints
  <2> HIDE DEF c
  <2> QED
    BY <2>1, <2>2, RouteRestarts
<1> QED
  BY <1>3, <1>4, <1>5, <1>6, <1>7, <1>8, <1>9, <1>10 DEF Operator

LEMMA HealStarts ==
    ASSUME EndInv, Heal
    PROVE  \E c, n : Start(c, n) /\ Restarts(c, n)
<1> DEFINE f == Fresh(Healthy(cp))
           w == SentBack(Healthy(cp))
<1>1. Well(Healthy(cp))
  BY BaseFacts, SameEdits DEF EndInv, WaitInv, BranchInv, Same
<1>2. Well(f)
  BY <1>1, SameEdits DEF Well
<1>3. Start(f, "verify") \/ Start(w, Route(w))
  BY DEF Heal, Decide
<1>5. Well(w) /\ Going(w)
  BY <1>1, SentBackWell
<1> HIDE DEF f, w
<1>6. Restarts(f, "verify") /\ Restarts(w, Route(w))
  BY <1>2, <1>5, RouteRestarts DEF Restarts, Well
<1> QED
  BY <1>3, <1>6

LEMMA ResumeStarts ==
    ASSUME EndInv, AutoResume
    PROVE  \E c, n : Start(c, n) /\ Restarts(c, n)
<1>0. Same(cp)
  BY BaseFacts DEF EndInv, WaitInv, BranchInv, Same
<1>1. Same(Granted) /\ Start(Granted, cp.next)
  BY <1>0, SameEdits DEF AutoResume, Granted
<1>2. /\ Granted.escalated = cp.escalated /\ Granted.paused = cp.paused
      /\ Granted.parked = cp.parked
  BY <1>0 DEF Granted, Same, Checkpoints
<1> QED
  BY <1>1, <1>2 DEF Restarts

\* Work that is on main under another id is on main under its own, or was
\* escalated: the supervisor only concludes what is there.
LEMMA ConcludedSaid == ASSUME EndInv, ConcludeLanded PROVE SaidInv'
<1>0. /\ TypeOK /\ CommitsInv /\ SaidInv /\ cp \in Checkpoints
      /\ status \in {"escalated", "awaiting_merge"} /\ pc = "off"
      /\ Landed(cp.committed) /\ status' = "done"
      /\ UNCHANGED <<pc, episode, head, landed, dirty, unseen>>
  BY BaseFacts DEF EndInv, WaitInv, BranchInv, ConcludeLanded, Parked, gitVars, shipVars
<1>1. ~cp'.escalated
  <2>1. PICK n : cp' = [Void(Healthy(cp)) EXCEPT !.parked = NoSha, !.feedback = FALSE,
                                                 !.next = n]
    BY DEF ConcludeLanded
  <2> QED
    BY <1>0, <2>1 DEF Void, Healthy, Checkpoints
<1>2. episode = "done_no_changes" => NothingLeft
  <2>1. CASE status = "escalated"
    BY <1>0, <2>1 DEF SaidInv
  <2>2. CASE status = "awaiting_merge"
    <3>1. cp.committed = head /\ Clean
      BY <1>0, <2>2 DEF SaidInv
    <3>2. ~Ahead
      BY <1>0, <3>1 DEF Landed, Ahead, InLive, CommitsInv
    <3> QED
      BY <3>1, <3>2 DEF Clean, NothingLeft
  <2> QED
    BY <1>0, <2>1, <2>2
<1>3. NothingLeft => NothingLeft'
  BY <1>0 DEF NothingLeft, Ahead, InLive
<1> QED
  BY <1>0, <1>1, <1>2, <1>3 DEF SaidInv

LEMMA RunSaid ==
    ASSUME EndInv, MarkQueued \/ MarkRunning \/ EndRun
    PROVE  SaidInv'
<1>0. SaidInv /\ ParkInv
  BY DEF EndInv, WaitInv
<1>1. UNCHANGED <<cp, episode, head, landed, unseen>> /\ (dirty' => dirty)
  <2>1. CASE MarkQueued \/ MarkRunning
    BY <2>1 DEF MarkQueued, MarkRunning, gitVars, shipVars
  <2>2. CASE EndRun
    <3>1. dirty' \in {dirty, dirty /\ status' # "done"}
      BY <2>2 DEF EndRun
    <3>2. UNCHANGED <<cp, episode, head, landed, unseen>>
      BY <2>2 DEF EndRun, shipVars
    <3> QED
      BY <3>1, <3>2
  <2> QED
    BY <2>1, <2>2
<1>2. (Clean => Clean') /\ (NothingLeft => NothingLeft')
  BY <1>1 DEF Clean, NothingLeft, Ahead, InLive
<1>3. CASE MarkQueued \/ MarkRunning
  BY <1>0, <1>1, <1>2, <1>3 DEF MarkQueued, MarkRunning, SaidInv
<1>4. CASE EndRun
  <2>1. pc' = "off" /\ cp.next = "end" /\ status' = FinalStatus(cp)
    BY <1>4 DEF EndRun
  <2>2. CASE cp.escalated
    BY <1>0, <1>1, <1>2, <2>1, <2>2 DEF FinalStatus, SaidInv
  <2>3. CASE ~cp.escalated /\ cp.paused
    BY <1>0, <1>1, <1>2, <2>1, <2>3 DEF FinalStatus, SaidInv
  <2>4. CASE ~cp.escalated /\ ~cp.paused /\ cp.parked # NoSha
    BY <1>0, <1>1, <1>2, <2>1, <2>4 DEF FinalStatus, SaidInv, ParkInv
  <2>5. CASE ~cp.escalated /\ ~cp.paused /\ cp.parked = NoSha
    BY <1>0, <1>1, <1>2, <2>1, <2>5 DEF FinalStatus, SaidInv
  <2> QED
    BY <2>2, <2>3, <2>4, <2>5
<1> QED
  BY <1>3, <1>4

LEMMA StillSaid ==
    ASSUME SaidInv, UNCHANGED <<cp, episode, head, landed, unseen>>, dirty' => dirty,
           \/ UNCHANGED <<pc, status>>
           \/ pc' = "off" /\ status' \in {status, "stopped"}
    PROVE  SaidInv'
<1>1. (Clean => Clean') /\ (NothingLeft => NothingLeft')
  BY DEF Clean, NothingLeft, Ahead, InLive
<1> QED
  BY <1>1 DEF SaidInv

LEMMA SaidStep == ASSUME EndInv, Next PROVE SaidInv'
<1>0. SaidInv
  BY DEF EndInv
<1>1. CASE Operator
  <2>1. CASE OpenPanel
    BY <1>0, <2>1, StillSaid DEF OpenPanel, gitVars, shipVars
  <2> QED
    BY <1>1, <2>1, OperatorStarts, StartSaid
<1>2. CASE Supervisor
  <2>1. CASE SweepWorkspace
    BY <1>0, <2>1, StillSaid DEF SweepWorkspace, shipVars
  <2> QED
    BY <1>2, <2>1, HealStarts, StartSaid, ConcludedSaid DEF Supervisor
<1>3. CASE World
  <2>1. CASE StartReview \/ RecordVerdict \/ LiveMoves
    BY <1>0, <2>1, StillSaid DEF StartReview, RecordVerdict, LiveMoves, gitVars, shipVars
  <2>2. CASE Crash \/ Stop
    BY <1>0, <2>2, StillSaid DEF Crash, Stop, LoseDriver, gitVars, shipVars
  <2>3. CASE AutoResume
    BY <2>3, ResumeStarts, StartSaid
  <2> QED
    BY <1>3, <2>1, <2>2, <2>3 DEF World
<1> QED
  BY <1>1, <1>2, <1>3, RunSaid, WorkSaid, GateSaid DEF Next, Driver

LEMMA EndStep == EndInv /\ [Next]_vars => EndInv'
<1>1. ASSUME EndInv, Next PROVE EndInv'
  BY <1>1, WaitStep, SaidStep DEF EndInv
<1>2. ASSUME EndInv, UNCHANGED vars PROVE EndInv'
  <2>1. SaidInv'
    BY <1>2, StillSaid DEF EndInv, vars
  <2> QED
    BY <1>2, <2>1, WaitStep DEF EndInv
<1> QED
  BY <1>1, <1>2

LEMMA EndInit == Init => EndInv
BY WaitInit DEF Init, EndInv, SaidInv

\* verify_and_ship_node's "no changes" (audit C-6): a task that is done and whose
\* episode says that nothing was changed has no commit main does not have and
\* nothing uncommitted, for any record of a commit that was lost, cleared or
\* escalated on the way -- unless git left the gate's question unanswered, which
\* the code takes for "nothing".
THEOREM NoChangesMeansNone == Spec => []NoUnshippedNoChanges
<1>1. EndInv => NoUnshippedNoChanges
  BY DEF EndInv, SaidInv, NothingLeft, NoUnshippedNoChanges
<1> QED
  BY <1>1, EndInit, EndStep, PTL DEF Spec

\* Only the gate writes an episode.
LEMMA OthersSilent ==
    ASSUME Next, ~Ends
    PROVE  UNCHANGED episode
<1>1. CASE MarkQueued \/ MarkRunning \/ Work \/ EndRun
  BY <1>1 DEF MarkQueued, MarkRunning, EndRun, Work, WorkspaceUnavailable, StartWork,
     AgentEdits, AgentCommits, WorkEnds
<1>2. CASE Operator
  BY <1>2 DEF Operator, ResumeShipping, ResumeWork, Reopen, CarryOn, OpenPanel,
     MergeApprove, RequestChanges, OperatorEdit, CommandDecision, Decide, Start
<1>3. CASE Supervisor
  BY <1>3 DEF Supervisor, ConcludeLanded, Heal, SweepWorkspace, Decide, Start
<1>4. CASE World
  BY <1>4 DEF World, StartReview, RecordVerdict, LiveMoves, Crash, Stop, LoseDriver,
     AutoResume, Start
<1> QED
  BY <1>1, <1>2, <1>3, <1>4, GateGoesOn DEF Next, Driver

\* _is_terminal and the outcomes of the gate: an episode comes to say "shipped"
\* only with work on main or in a pull request, an alert of its own to close, or
\* a branch put onto main's own tip; a parked task does not say it yet.
THEOREM ShippedIsShipped == Spec => ShippedMeansLanded
<1>1. EndInv /\ [Next]_vars
        => [episode' = "shipped" /\ episode # "shipped"
              => landed' \union pushed' # {} \/ HasAlert \/ head = Base]_vars
  <2> SUFFICES ASSUME EndInv, Next, episode' = "shipped", episode # "shipped"
               PROVE  landed' \union pushed' # {} \/ HasAlert \/ head = Base
    BY DEF vars
  <2>1. Ends
    BY OthersSilent
  <2>2. PICK c, o : Says(c, o)
    BY <2>1, EndsSay DEF EndInv, WaitInv, BranchInv
  <2> QED
    BY <2>2, SaysTruly
<1> QED
  BY <1>1, EndInit, EndStep, PTL DEF Spec, ShippedMeansLanded

-----------------------------------------------------------------------------
(* What a pull request offers *)

\* Without the final look nothing is parked or approved, so the gate never
\* leaves the tip, and what it holds past the review was called READY -- or goes
\* to a benchmark, which opens no pull request.
OfferInv ==
    /\ cp.parked = NoSha /\ cp.approved = NoSha /\ ~offTip
    /\ pc \in PastLook => sha \in ready \/ Benchmark
    /\ PushedWasReviewed

PushInv == LookInv /\ OfferInv

LEMMA NothingApproved ==
    ASSUME ~RequireReview, TypeOK, OfferInv, Next
    PROVE  cp'.parked = NoSha /\ cp'.approved = NoSha
<1>1. ~Park
  BY DEF Park, NeedsFinalLook
<1>2. ~MergeApprove
  BY DEF MergeApprove, OfferInv
<1> QED
  BY <1>1, <1>2, CheckpointMoves DEF Kept, OfferInv

LEMMA ReadyGrows ==
    ASSUME Next
    PROVE  ready \subseteq ready'
<1>1. CASE UNCHANGED reviewVars
  BY <1>1 DEF reviewVars
<1>2. CASE Ask \/ Merge \/ MergeAnswerLost
  BY <1>2 DEF Ask, Merge, MergeAnswerLost, FastForward
<1>3. CASE StartReview \/ RecordVerdict
  BY <1>3 DEF StartReview, RecordVerdict
<1> QED
  BY <1>1, <1>2, <1>3, GateLeavesReview, OthersLeaveReview DEF Next, Driver, World

LEMMA OnlyPullRequestPushes ==
    ASSUME Next, ~OpenPullRequest
    PROVE  UNCHANGED pushed
<1> USE DEF shipVars, Overlooks, NothingToShip
<1>1. CASE Ends
  <2>1. CASE \/ GateDeclines \/ GateRefusesEdits \/ ChecksFail \/ ConcludeInLive
             \/ NudgeCoder \/ NoDiff \/ HoldCommit \/ RebaseConflicts
    BY <2>1 DEF GateDeclines, GateRefusesEdits, ChecksFail, ConcludeInLive, NudgeCoder,
       NoDiff, HoldCommit, RebaseConflicts
  <2>2. CASE \/ AskFails \/ ReviewTimesOut \/ Rejected \/ Park \/ CIFails \/ CIStops
             \/ MergeAnswerLost
    BY <2>2 DEF AskFails, ReviewTimesOut, Rejected, Park, CIFails, CIStops,
       MergeAnswerLost, FastForward
  <2>3. CASE ShipFails \/ DivergedConflicts \/ Deploy \/ DeployFails \/ GateThrows
    BY <2>3 DEF ShipFails, DivergedConflicts, Deploy, DeployFails, GateThrows
  <2> QED
    BY <1>1, <2>1, <2>2, <2>3 DEF Ends
<1>2. CASE Gate /\ ~Ends
  BY <1>2 DEF Gate, Ends, GateOpens, FastPath, AskAgain, Commit, RebaseCommit, Ask,
     PassReview, CIPasses, Merge, FastForward, Diverge, RebaseDiverged
<1>3. CASE MarkQueued \/ MarkRunning \/ Work \/ EndRun
  BY <1>3 DEF MarkQueued, MarkRunning, EndRun, Work, WorkspaceUnavailable, StartWork,
     AgentEdits, AgentCommits, WorkEnds
<1>4. CASE Operator
  BY <1>4 DEF Operator, ResumeShipping, ResumeWork, Reopen, CarryOn, OpenPanel,
     MergeApprove, RequestChanges, OperatorEdit, CommandDecision, Decide, Start
<1>5. CASE Supervisor
  BY <1>5 DEF Supervisor, ConcludeLanded, Heal, SweepWorkspace, Decide, Start
<1>6. CASE World
  BY <1>6 DEF World, StartReview, RecordVerdict, LiveMoves, Crash, Stop, LoseDriver,
     AutoResume, Start
<1> QED
  BY <1>1, <1>2, <1>3, <1>4, <1>5, <1>6 DEF Next, Driver

\* Where the gate gets past the review, and that it stays at the tip.
LEMMA GateOffers ==
    ASSUME PushInv, Gate, ~Ends
    PROVE  ~offTip' /\ (pc' \in PastLook => sha' \in ready \/ Benchmark)
<1> USE DEF PastLook
<1>0. TypeOK /\ RecordInv /\ OfferInv
  BY DEF PushInv, LookInv, ApprovalInv
<1>1. CASE GateOpens \/ AskAgain \/ Commit \/ RebaseCommit \/ RebaseDiverged \/ Ask
  <2>1. pc' \notin PastLook /\ offTip' = offTip
    BY <1>1 DEF GateOpens, AskAgain, Commit, RebaseCommit, RebaseDiverged, Ask, TurnTo,
       localVars
  <2> QED
    BY <1>0, <2>1 DEF OfferInv
<1>2. ~FastPath
  BY <1>0 DEF FastPath, Approved, OfferInv
<1>3. CASE PassReview
  BY <1>0, <1>3 DEF OfferInv, PassReview, Answered, Ships, Disputed, RecordInv
<1>4. CASE CIPasses \/ Merge \/ Diverge
  BY <1>0, <1>4 DEF OfferInv, CIPasses, Merge, Diverge, localVars
<1> QED
  BY <1>1, <1>2, <1>3, <1>4 DEF Gate, Ends

LEMMA OfferStep ==
    ASSUME ~RequireReview, PushInv, Next
    PROVE  OfferInv'
<1>0. TypeOK /\ OfferInv /\ TipInv /\ head <= used
  BY DEF PushInv, LookInv, ApprovalInv, MintedInv
<1>1. ~offTip' /\ (pc' \in PastLook => sha' \in ready \/ Benchmark)
  <2>1. CASE Ends
    BY <2>1, EndsMove DEF PastLook
  <2>2. CASE Gate /\ ~Ends
    BY <2>2, GateOffers
  <2>3. CASE Work
    <3>1. pc' \notin PastLook
      BY <2>3 DEF Work, WorkspaceUnavailable, StartWork, AgentEdits, AgentCommits,
         WorkEnds, AtWork, PastLook
    <3> QED
      BY <1>0, <2>3, <3>1, WorkMoves DEF OfferInv
  <2>4. CASE MarkQueued \/ MarkRunning \/ EndRun \/ Operator \/ Supervisor \/ World
    <3>1. \/ UNCHANGED <<sha, appr, offTip>>
          \/ sha' = NoSha /\ appr' = NoSha /\ ~offTip' /\ pc' = "off"
      BY <1>0, <2>4, OthersMove
    <3>2. "off" \notin PastLook /\ PastLook \subseteq Interior
      BY DEF PastLook, Interior
    <3> QED
      BY <1>0, <2>4, <3>1, <3>2, OthersPlace DEF OfferInv
  <2> QED
    BY <2>1, <2>2, <2>3, <2>4 DEF Next, Driver
<1>2. pushed' \subseteq ready
  <2>1. CASE OpenPullRequest
    <3>1. pc = "ship" /\ pushed' = pushed \union {head} /\ ~Benchmark
      BY <2>1, ConstantsAssumption DEF OpenPullRequest
    <3>2. sha = head /\ sha \in ready
      BY <1>0, <3>1 DEF TipInv, OfferInv, Shipping, PastLook
    <3> QED
      BY <1>0, <3>1, <3>2 DEF OfferInv, PushedWasReviewed
  <2>2. CASE ~OpenPullRequest
    BY <1>0, <2>2, OnlyPullRequestPushes DEF OfferInv, PushedWasReviewed
  <2> QED
    BY <2>1, <2>2
<1> QED
  BY <1>0, <1>1, <1>2, NothingApproved, ReadyGrows DEF OfferInv, PushedWasReviewed

\* ship_as_pull_request, for a project without the operator's final look: the
\* branch is pushed and not a commit, and what the pull request offers is still
\* a commit the reviewer called READY.
THEOREM PushesAreReviewed ==
    ASSUME ~RequireReview
    PROVE  Spec => []PushedWasReviewed
<1>1. Init => PushInv
  BY LookInit DEF Init, PushInv, OfferInv, PushedWasReviewed, PastLook
<1>2. PushInv /\ [Next]_vars => PushInv'
  <2>1. ASSUME PushInv, Next PROVE OfferInv'
    BY <2>1, OfferStep
  <2>2. ASSUME PushInv, UNCHANGED vars PROVE OfferInv'
    BY <2>2 DEF PushInv, OfferInv, PushedWasReviewed, vars
  <2> QED
    BY <2>1, <2>2, LookStep DEF PushInv
<1>3. PushInv => PushedWasReviewed
  BY DEF PushInv, OfferInv
<1> QED
  BY <1>1, <1>2, <1>3, PTL DEF Spec

=============================================================================
