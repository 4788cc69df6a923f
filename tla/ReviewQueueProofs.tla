-------------------------- MODULE ReviewQueueProofs --------------------------
(***************************************************************************)
(* Safety of the review service, for any set of branches and any bounds.   *)
(* The guard is proved first, from itself; the merge from what the records *)
(* and the merges under way are known to be; what the file shows from the  *)
(* guard and from the number of writes that have failed.                   *)
(***************************************************************************)
EXTENDS ReviewQueue, TLAPS

\* The guard is up for as long as a review runs, and there is one review.
Guarded == (review # {} => busy) /\ OneReviewAtATime

LEMMA GuardedInit == Init => Guarded
BY DEF Init, Guarded, OneReviewAtATime

LEMMA GuardedStep == Guarded /\ [Next]_vars => Guarded'
<1> SUFFICES ASSUME Guarded, [Next]_vars PROVE Guarded'
  OBVIOUS
<1> USE DEF Guarded, OneReviewAtATime
<1>1. ASSUME NEW f \in found, StartReview(f) PROVE Guarded'
  <2>1. review = {} /\ busy'
    BY <1>1 DEF StartReview, MayStart
  <2> QED BY <1>1, <2>1 DEF StartReview
<1>2. ASSUME NEW f \in found, YieldToReview(f) PROVE Guarded'
  BY <1>2 DEF YieldToReview
<1>3. ASSUME NEW r \in review, RecordVerdict(r) \/ ReviewErrs(r) PROVE Guarded'
  <2>1. review = {r} /\ busy
    OBVIOUS
  <2>2. \E at \in {"cleanup"} : review' = {[r EXCEPT !.at = at]}
    BY <1>3, <2>1 DEF RecordVerdict, ReviewErrs, Advance
  <2>3. busy' = busy
    BY <1>3 DEF RecordVerdict, ReviewErrs
  <2> QED BY <2>1, <2>2, <2>3
<1>4. ASSUME NEW r \in review, FinishReview(r) PROVE Guarded'
  BY <1>4 DEF FinishReview
<1>5. ASSUME NEW b \in MaybeBranch, Continue(b) PROVE Guarded'
  <2>1. ASSUME NEW c \in asked, Detects(c) \/ DetectsNothing(c) PROVE Guarded'
    BY <2>1 DEF Detects, DetectsNothing
  <2> QED BY <1>1, <1>2, <1>5, <2>1 DEF Continue
<1>6. CASE Tasks
  BY <1>6 DEF Tasks, StartWriting, CommitWork, Rebase, Ask, memVars
<1>7. CASE Merger
  BY <1>7 DEF Merger, MergeGate, FastForward, MergeRefused, ClearReviewState, memVars
<1>8. CASE Poll
  BY <1>8 DEF Poll
<1>9. CASE Crash
  BY <1>9 DEF Crash
<1>10. CASE Restart
  BY <1>10 DEF Restart, memVars
<1>11. CASE UNCHANGED vars
  BY <1>11 DEF vars
<1> QED
  BY <1>3, <1>4, <1>5, <1>6, <1>7, <1>8, <1>9, <1>10, <1>11
     DEF Next, Reviewer, Review

\* However calls, requests and the queue interleave around the awaits of the
\* detection, a project has at most one review (reviewProject's guard).
THEOREM ReviewsAreExclusive == Spec => []OneReviewAtATime
<1>1. Guarded => OneReviewAtATime
  BY DEF Guarded
<1> QED BY <1>1, GuardedInit, GuardedStep, PTL DEF Spec

-----------------------------------------------------------------------------
(* The merge *)

\* The part of the types that tells which commit a call, a review or a merge is
\* about.
UnitTypes ==
    /\ made \in Nat /\ rebased \in 0..MaxRebases /\ made - rebased <= MaxCommits
    /\ tip \in [Branches -> Tips]
    /\ record \in Records
    /\ \A f \in found : f.unit \in Commit
    /\ \A r \in review : r.unit \in Commit /\ r = [unit |-> r.unit, at |-> r.at]
    /\ \A m \in merging : m.unit \in Commit /\ m = [unit |-> m.unit, at |-> m.at]

\* What a READY record, a merge under way and a merged commit have in common.
ReadyOnly ==
    /\ \A b \in Branches : record[b].verdict = "READY"
                             => [branch |-> b, sha |-> record[b].sha] \in ready
    /\ \A m \in merging : m.unit \in ready
    /\ MergedWasReady

MergeInv == UnitTypes /\ ReadyOnly

LEMMA MergeInvInit == Init => MergeInv
BY ConstantsAssumption
   DEF Init, MergeInv, UnitTypes, ReadyOnly, MergedWasReady, Records, NoRecord,
       Verdicts, Tips

LEMMA MergeInvStep == MergeInv /\ [Next]_vars => MergeInv'
<1> SUFFICES ASSUME MergeInv, [Next]_vars PROVE MergeInv'
  OBVIOUS
<1> USE DEF MergeInv, UnitTypes
<1> USE ConstantsAssumption
\* Steps that leave records, verdicts and merges alone.
<1> DEFINE Alone == UNCHANGED <<record, merging, ready, merged>>
<1>a. ASSUME Alone, UnitTypes' PROVE MergeInv'
  BY <1>a DEF ReadyOnly, MergedWasReady
<1>b. ASSUME NEW c, c \in Commit PROVE c = [branch |-> c.branch, sha |-> c.sha]
  BY <1>b DEF Commit
<1>1. ASSUME NEW b \in Branches, CommitWork(b) \/ Rebase(b) PROVE MergeInv'
  <2>1. /\ made' \in Nat /\ rebased' \in 0..MaxRebases
        /\ made' - rebased' <= MaxCommits
    BY <1>1 DEF CommitWork, Rebase, Mint
  <2>3. made' \in Tips /\ tip' = [tip EXCEPT ![b] = made']
    BY <1>1, <2>1 DEF CommitWork, Rebase, Mint, Tips
  <2>2. UNCHANGED <<record, merging, ready, merged, found, review>>
    BY <1>1 DEF CommitWork, Rebase, fileVars, memVars
  <2> QED BY <1>a, <2>1, <2>2, <2>3
<1>2. ASSUME NEW b \in Branches, StartWriting(b) \/ Ask(b) PROVE MergeInv'
  <2>1. Alone /\ UNCHANGED <<made, rebased, tip, found, review>>
    BY <1>2 DEF StartWriting, Ask, fileVars, memVars, gitVars
  <2> QED BY <1>a, <2>1
<1>3. ASSUME NEW c \in asked, Detects(c) \/ DetectsNothing(c) PROVE MergeInv'
  <2>1. Alone /\ UNCHANGED <<made, rebased, tip, review>>
    BY <1>3 DEF Detects, DetectsNothing, fileVars, gitVars
  <2>2. \A f \in found' : f.unit \in Commit
    <3>1. \A b \in Branches : Tip(b) \in Commit
      BY DEF Tip, Commit
    <3> QED BY <1>3, <3>1 DEF Detects, DetectsNothing
  <2> QED BY <1>a, <2>1, <2>2
<1>4. ASSUME NEW f \in found, StartReview(f) \/ YieldToReview(f) PROVE MergeInv'
  <2>1. Alone /\ UNCHANGED <<made, rebased, tip>>
    BY <1>4 DEF StartReview, YieldToReview, gitVars
  <2>2. \A g \in found' : g.unit \in Commit
    BY <1>4 DEF StartReview, YieldToReview
  <2>3. \A r \in review' : r.unit \in Commit /\ r = [unit |-> r.unit, at |-> r.at]
    BY <1>4 DEF StartReview, YieldToReview
  <2> QED BY <1>a, <2>1, <2>2, <2>3
<1>5. ASSUME NEW r \in review, RecordVerdict(r) \/ ReviewErrs(r) PROVE MergeInv'
  <2>1. UNCHANGED <<made, rebased, tip, found, merging, merged>>
    BY <1>5 DEF RecordVerdict, ReviewErrs, gitVars
  <2>2. \A s \in review' : s.unit \in Commit /\ s = [unit |-> s.unit, at |-> s.at]
    BY <1>5 DEF RecordVerdict, ReviewErrs, Advance
  <2>3. r.unit \in Commit /\ r.unit.branch \in Branches /\ r.unit.sha \in Tips
    BY DEF Commit
  <2>4. ready \subseteq ready'
    BY <1>5 DEF RecordVerdict, ReviewErrs
  <2>5. CASE UNCHANGED record
    BY <2>1, <2>2, <2>4, <2>5 DEF ReadyOnly, MergedWasReady
  <2>6. ASSUME NEW v \in Verdicts, Record(r.unit, v), v = "READY" => r.unit \in ready'
        PROVE MergeInv'
    <3>1. record' = [record EXCEPT ![r.unit.branch] = [sha |-> r.unit.sha, verdict |-> v]]
      BY <2>6 DEF Record
    <3>2. record' \in Records
      BY <2>3, <3>1 DEF Records
    <3>3. ASSUME NEW b \in Branches, record'[b].verdict = "READY"
          PROVE [branch |-> b, sha |-> record'[b].sha] \in ready'
      <4>1. CASE b = r.unit.branch
        BY <1>b, <2>3, <2>6, <3>1, <3>3, <4>1 DEF Records
      <4>2. CASE b # r.unit.branch
        BY <2>4, <3>1, <3>3, <4>2 DEF ReadyOnly, Records
      <4> QED BY <4>1, <4>2
    <3> QED BY <2>1, <2>2, <2>4, <3>2, <3>3 DEF ReadyOnly, MergedWasReady
  <2> QED BY <1>5, <2>5, <2>6 DEF RecordVerdict, ReviewErrs, Verdicts
<1>6. ASSUME NEW r \in review, FinishReview(r) PROVE MergeInv'
  <2>1. Alone /\ UNCHANGED <<made, rebased, tip, found>> /\ review' \subseteq review
    BY <1>6 DEF FinishReview, gitVars
  <2> QED BY <1>a, <2>1
<1>7. CASE Poll \/ Crash \/ Restart
  <2>1. Alone /\ UNCHANGED <<made, rebased, tip>> /\ review' \subseteq review /\ found' \subseteq found
    BY <1>7 DEF Poll, Crash, Restart, gitVars, fileVars, memVars
  <2> QED BY <1>a, <2>1
<1>8. ASSUME NEW b \in Branches, MergeGate(b) PROVE MergeInv'
  <2>1. UNCHANGED <<made, rebased, tip, record, found, review, ready, merged>>
    BY <1>8 DEF MergeGate, gitVars, fileVars, memVars
  <2>2. Tip(b) \in Commit /\ Tip(b) \in ready
    BY <1>8 DEF MergeGate, Tip, Commit, ReadyOnly
  <2>3. merging' = merging \union {[unit |-> Tip(b), at |-> "checked"]}
    BY <1>8 DEF MergeGate
  <2> QED BY <2>1, <2>2, <2>3 DEF ReadyOnly, MergedWasReady
<1>9. ASSUME NEW m \in merging, FastForward(m) PROVE MergeInv'
  <2>1. UNCHANGED <<made, rebased, tip, record, found, review, ready>>
    BY <1>9 DEF FastForward, fileVars, memVars
  <2>2. merged' = merged \union {[branch |-> m.unit.branch, sha |-> m.unit.sha]}
    BY <1>9 DEF FastForward, MergedSha
  <2>3. merged' = merged \union {m.unit}
    BY <1>b, <2>2
  <2>4. merging' = (merging \ {m}) \union {[m EXCEPT !.at = "merged"]}
    BY <1>9 DEF FastForward
  <2>5. [m EXCEPT !.at = "merged"] = [unit |-> m.unit, at |-> "merged"]
    OBVIOUS
  <2> QED BY <2>1, <2>3, <2>4, <2>5 DEF ReadyOnly, MergedWasReady
<1>10. ASSUME NEW m \in merging, MergeRefused(m) \/ ClearReviewState(m) PROVE MergeInv'
  <2>1. UNCHANGED <<made, rebased, tip, found, review, ready, merged>> /\ merging' \subseteq merging
    BY <1>10 DEF MergeRefused, ClearReviewState, gitVars, fileVars, memVars
  <2>2. \/ record' = record
        \/ \E b \in Branches : record' = [record EXCEPT ![b] = NoRecord]
    BY <1>10 DEF MergeRefused, ClearReviewState, fileVars, Commit
  <2>3. record' \in Records
    BY <2>2 DEF Records, NoRecord, Verdicts, Tips
  <2>4. \A b \in Branches : record'[b].verdict = "READY" => record'[b] = record[b]
    BY <2>2 DEF Records, NoRecord
  <2> QED BY <2>1, <2>3, <2>4 DEF ReadyOnly, MergedWasReady
<1>11. CASE UNCHANGED vars
  BY <1>a, <1>11 DEF vars
<1> QED
  BY <1>1, <1>2, <1>3, <1>4, <1>5, <1>6, <1>7, <1>8, <1>9, <1>10, <1>11
     DEF Next, Tasks, Reviewer, Review, Continue, Merger

\* A branch that gets commits, and a record that gets another verdict, between
\* the endpoint's gate and its merge do not make it merge what was never READY.
THEOREM MergesWereReady == Spec => []MergedWasReady
<1>1. MergeInv => MergedWasReady
  BY DEF MergeInv, ReadyOnly
<1> QED BY <1>1, MergeInvInit, MergeInvStep, PTL DEF Spec

-----------------------------------------------------------------------------
(* What state.json shows of the process *)

FileInv == failed \in Nat /\ ProgressIsReal /\ ShownIsQueued

LEMMA FileInvInit == Init => FileInv
BY DEF Init, FileInv, ProgressIsReal, ShownIsQueued

\* A write that fails is remembered, and nothing is claimed of the file after it.
LEMMA FailureIsRemembered ==
    ASSUME failed \in Nat, WriteFails PROVE failed' \in Nat /\ failed' # 0
BY DEF WriteFails

LEMMA FileInvStep == Guarded /\ FileInv /\ [Next]_vars => FileInv'
<1> SUFFICES ASSUME Guarded, FileInv, [Next]_vars PROVE FileInv'
  OBVIOUS
<1> USE DEF FileInv, ProgressIsReal, ShownIsQueued
<1> USE FailureIsRemembered
<1>1. ASSUME NEW f \in found, StartReview(f) PROVE FileInv'
  <2>1. CASE WriteFails
    BY <1>1, <2>1
  <2>2. ASSUME progress' = f.unit, UNCHANGED failed,
               review' = review \union {[unit |-> f.unit, at |-> "checks"]}
        PROVE  FileInv'
    <3>1. [unit |-> f.unit, at |-> "checks"] \in review'
      BY <2>2
    <3> QED BY <1>1, <2>2, <3>1 DEF StartReview
  <2> QED BY <1>1, <2>1, <2>2 DEF StartReview
<1>2. ASSUME NEW f \in found, YieldToReview(f) PROVE FileInv'
  BY <1>2 DEF YieldToReview, Persist
<1>3. ASSUME NEW r \in review, RecordVerdict(r) PROVE FileInv'
  BY <1>3 DEF RecordVerdict, Record, boundVars
<1>4. ASSUME NEW r \in review, ReviewErrs(r) PROVE FileInv'
  <2>1. CASE WriteFails
    BY <1>4, <2>1
  <2>2. CASE progress' = NoCommit /\ UNCHANGED failed
    BY <1>4, <2>2 DEF ReviewErrs
  <2>3. CASE progress # r.unit /\ UNCHANGED <<progress, failed>>
    <3>1. review = {r}
      BY DEF Guarded, OneReviewAtATime
    <3> QED BY <1>4, <2>3, <3>1 DEF ReviewErrs
  <2> QED BY <1>4, <2>1, <2>2, <2>3 DEF ReviewErrs, Record
<1>5. ASSUME NEW r \in review, FinishReview(r) PROVE FileInv'
  <2>1. UNCHANGED <<up, progress>>
    BY <1>5 DEF FinishReview
  <2>2. progress # NoCommit /\ up /\ failed = 0 =>
            \E s \in review' : s.unit = progress /\ s.at = "checks"
    BY <1>5 DEF FinishReview
  <2>3. \/ failed' \in Nat /\ failed' # 0
        \/ UNCHANGED failed /\ (shown' = queue' \/ UNCHANGED <<queue, shown>>)
    BY <1>5 DEF FinishReview, Shift, Persist
  <2> QED BY <2>1, <2>2, <2>3
<1>6. ASSUME NEW b \in MaybeBranch, Continue(b) PROVE FileInv'
  <2>1. ASSUME NEW c \in asked, Detects(c) \/ DetectsNothing(c) PROVE FileInv'
    BY <2>1 DEF Detects, DetectsNothing, fileVars, boundVars
  <2> QED BY <1>1, <1>2, <1>6, <2>1 DEF Continue
<1>7. ASSUME NEW b \in Branches, Ask(b) PROVE FileInv'
  BY <1>7 DEF Ask, Persist, fileVars
<1>8. ASSUME NEW b \in Branches, StartWriting(b) \/ CommitWork(b) \/ Rebase(b)
      PROVE  FileInv'
  BY <1>8 DEF StartWriting, CommitWork, Rebase, fileVars, memVars, boundVars
<1>9. ASSUME NEW m \in merging, ClearReviewState(m) PROVE FileInv'
  <2>1. UNCHANGED <<up, queue, review>>
    BY <1>9 DEF ClearReviewState, memVars
  <2>2. \/ WriteFails
        \/ UNCHANGED failed /\ \/ progress' = NoCommit /\ shown' = <<>>
                               \/ UNCHANGED <<progress, shown>>
    BY <1>9 DEF ClearReviewState
  <2> QED BY <2>1, <2>2
<1>10. ASSUME NEW b \in Branches, MergeGate(b) PROVE FileInv'
  BY <1>10 DEF MergeGate, fileVars, memVars, boundVars
<1>11. ASSUME NEW m \in merging, FastForward(m) \/ MergeRefused(m) PROVE FileInv'
  BY <1>11 DEF FastForward, MergeRefused, fileVars, memVars, boundVars
<1>12. CASE Poll
  BY <1>12 DEF Poll, fileVars, boundVars
<1>13. CASE Crash
  BY <1>13 DEF Crash
<1>14. CASE Restart
  BY <1>14 DEF Restart, Sweep, boundVars
<1>15. CASE UNCHANGED vars
  BY <1>15 DEF vars
<1> QED
  BY <1>3, <1>4, <1>5, <1>6, <1>7, <1>8, <1>9, <1>10, <1>11, <1>12, <1>13,
     <1>14, <1>15 DEF Next, Tasks, Reviewer, Review, Merger

\* inProgress in the file is a review that really runs, whatever crashed, failed
\* or merged since, as long as no write of the file was given up.
THEOREM ProgressIsTrue == Spec => []ProgressIsReal
<1>1. FileInv => ProgressIsReal
  BY DEF FileInv
<1> QED BY <1>1, GuardedInit, GuardedStep, FileInvInit, FileInvStep, PTL DEF Spec

\* `queued` in the file is the queue in memory or nothing, under the same proviso.
THEOREM QueueIsTrue == Spec => []ShownIsQueued
<1>1. FileInv => ShownIsQueued
  BY DEF FileInv
<1> QED BY <1>1, GuardedInit, GuardedStep, FileInvInit, FileInvStep, PTL DEF Spec

-----------------------------------------------------------------------------
(* The types *)

\* A queue of branches, each of them once.
Listed(s) == /\ s \in Seq(Branches)
             /\ \A i, j \in 1..Len(s) : s[i] = s[j] => i = j

LEMMA EnqueuedIsListed ==
    ASSUME Listed(queue), NEW b \in Branches PROVE Listed(Enqueued(b))
<1>1. CASE In(b, queue)
  BY <1>1 DEF Enqueued
<1>2. CASE ~In(b, queue)
  <2>1. Enqueued(b) = Append(queue, b) /\ queue \in Seq(Branches)
    BY <1>2 DEF Enqueued, Listed
  <2>2. /\ Len(Append(queue, b)) = Len(queue) + 1 /\ Append(queue, b) \in Seq(Branches)
        /\ \A i \in 1..Len(queue) : Append(queue, b)[i] = queue[i]
        /\ Append(queue, b)[Len(queue) + 1] = b /\ Len(queue) \in Nat
    BY <2>1
  <2>3. \A i \in 1..Len(queue) : queue[i] # b
    BY <1>2 DEF In
  <2>4. ASSUME NEW i \in 1..Len(Append(queue, b)), NEW j \in 1..Len(Append(queue, b)),
               Append(queue, b)[i] = Append(queue, b)[j]
        PROVE  i = j
    <3>1. /\ i \in 1..Len(queue) \/ i = Len(queue) + 1
          /\ j \in 1..Len(queue) \/ j = Len(queue) + 1
      BY <2>2
    <3> QED BY <2>2, <2>3, <2>4, <3>1 DEF Listed
  <2> QED BY <2>1, <2>2, <2>4 DEF Listed
<1> QED BY <1>1, <1>2

LEMMA TailIsListed ==
    ASSUME Listed(queue), queue # <<>> PROVE Listed(Tail(queue)) /\ Head(queue) \in Branches
<1>1. /\ Tail(queue) \in Seq(Branches) /\ Len(Tail(queue)) = Len(queue) - 1
      /\ Head(queue) \in Branches /\ Len(queue) \in Nat
      /\ \A i \in 1..Len(Tail(queue)) : Tail(queue)[i] = queue[i + 1]
  BY DEF Listed
<1>2. ASSUME NEW i \in 1..Len(Tail(queue)), NEW j \in 1..Len(Tail(queue)),
             Tail(queue)[i] = Tail(queue)[j]
      PROVE  i = j
  <2>1. i + 1 \in 1..Len(queue) /\ j + 1 \in 1..Len(queue) /\ queue[i + 1] = queue[j + 1]
    BY <1>1, <1>2
  <2>2. i + 1 = j + 1
    BY <2>1 DEF Listed
  <2> QED BY <2>2
<1> QED BY <1>1, <1>2 DEF Listed

Calls == [req : MaybeBranch, done : SUBSET Commit, lame : SUBSET Commit]
Finds == [req : MaybeBranch, unit : Commit]

\* The calls of reviewProject, and the branches that wait to be called for.
CallInv == /\ Listed(queue) /\ Listed(shown)
           /\ asked \subseteq Calls /\ found \subseteq Finds

LEMMA CallIsTyped ==
    ASSUME asked \subseteq Calls, NEW b \in MaybeBranch, Call(b) PROVE asked' \subseteq Calls
<1>1. \A vs : Judged(vs) \in SUBSET Commit
  BY DEF Judged
<1>2. Judged({"READY", "FIX"}) \intersect {c \in Commit : b \in {None, c.branch}} \in SUBSET Commit
  BY <1>1
<1>3. (IF b = None THEN Judged({"HARNESS"}) ELSE {}) \in SUBSET Commit
  BY <1>1
<1> QED BY <1>2, <1>3 DEF Call, Calls

LEMMA TipIsCommit == ASSUME MergeInv, NEW b \in Branches PROVE Tip(b) \in Commit
  BY DEF MergeInv, UnitTypes, Tip, Commit

LEMMA CallInvStep == MergeInv /\ CallInv /\ [Next]_vars => CallInv'
<1> SUFFICES ASSUME MergeInv, CallInv, [Next]_vars PROVE CallInv'
  OBVIOUS
<1>1. Listed(queue) /\ Listed(shown) /\ asked \subseteq Calls /\ found \subseteq Finds
  BY DEF CallInv
<1>2. Listed(<<>>)
  BY DEF Listed
<1>3. ASSUME NEW b \in Branches, Ask(b) PROVE CallInv'
  <2>1. CASE Call(b) /\ UNCHANGED <<queue, shown, found>>
    <3>1. asked' \subseteq Calls
      BY <1>1, <2>1, CallIsTyped DEF MaybeBranch
    <3> QED BY <1>1, <2>1, <3>1 DEF CallInv, Listed
  <2>2. CASE queue' = Enqueued(b) /\ shown' = queue' /\ UNCHANGED <<asked, found>>
    <3>1. Listed(queue)'
      BY <1>1, <2>2, EnqueuedIsListed DEF Listed
    <3> QED BY <1>1, <2>2, <3>1 DEF CallInv, Listed
  <2> QED BY <1>3, <2>1, <2>2 DEF Ask, Persist, fileVars
<1>4. ASSUME NEW c \in asked, Detects(c) \/ DetectsNothing(c) PROVE CallInv'
  <2>1. UNCHANGED <<queue, shown>> /\ asked' \subseteq Calls
    BY <1>1, <1>4 DEF Detects, DetectsNothing, fileVars
  <2>2. \A b \in Branches : [req |-> c.req, unit |-> Tip(b)] \in Finds
    BY <1>1, TipIsCommit DEF Calls, Finds
  <2>3. found' \subseteq Finds
    BY <1>1, <1>4, <2>2 DEF Detects, DetectsNothing
  <2> QED BY <1>1, <2>1, <2>3 DEF CallInv, Listed
<1>5. ASSUME NEW f \in found, StartReview(f) PROVE CallInv'
  BY <1>1, <1>5 DEF StartReview, CallInv, Listed
<1>6. ASSUME NEW f \in found, YieldToReview(f) PROVE CallInv'
  <2>1. UNCHANGED asked /\ found' \subseteq Finds /\ f.req \in MaybeBranch
    BY <1>1, <1>6 DEF YieldToReview, Finds
  <2>2. CASE UNCHANGED <<queue, shown>>
    BY <1>1, <2>1, <2>2 DEF CallInv, Listed
  <2>3. CASE f.req # None /\ queue' = Enqueued(f.req) /\ shown' \in {queue', shown}
    <3>1. PICK b \in Branches : b = f.req
      BY <2>1, <2>3 DEF MaybeBranch
    <3>2. Listed(queue)'
      BY <1>1, <2>3, <3>1, EnqueuedIsListed DEF Listed
    <3>3. Listed(shown')
      BY <1>1, <2>3, <3>2 DEF Listed
    <3> QED BY <2>1, <3>2, <3>3 DEF CallInv, Listed
  <2> QED BY <1>6, <2>2, <2>3 DEF YieldToReview, Persist
<1>7. ASSUME NEW r \in review, RecordVerdict(r) \/ ReviewErrs(r) PROVE CallInv'
  <2>1. UNCHANGED <<queue, asked, found>> /\ shown' \in {<<>>, shown}
    BY <1>7 DEF RecordVerdict, ReviewErrs
  <2>2. Listed(shown')
    BY <1>1, <1>2, <2>1
  <2> QED BY <1>1, <2>1, <2>2 DEF CallInv, Listed
<1>8. ASSUME NEW r \in review, FinishReview(r) PROVE CallInv'
  <2>1. CASE UNCHANGED <<queue, asked, shown, found>>
    BY <1>1, <2>1 DEF CallInv, Listed
  <2>2. CASE queue # <<>> /\ Shift /\ UNCHANGED found
    <3>1. Listed(Tail(queue)) /\ Head(queue) \in MaybeBranch
      BY <1>1, <2>2, TailIsListed DEF MaybeBranch
    <3>2. queue' = Tail(queue) /\ shown' \in {queue', shown}
      BY <2>2 DEF Shift, Persist
    <3>3. asked' \subseteq Calls
      BY <1>1, <2>2, <3>1, CallIsTyped DEF Shift
    <3>4. Listed(queue)'
      BY <3>1, <3>2 DEF Listed
    <3> QED BY <1>1, <2>2, <3>2, <3>3, <3>4 DEF CallInv, Listed
  <2> QED BY <1>8, <2>1, <2>2 DEF FinishReview
<1>9. CASE Poll
  <2>1. asked' \subseteq Calls
    BY <1>1, <1>9, CallIsTyped DEF Poll, MaybeBranch
  <2> QED BY <1>1, <1>9, <2>1 DEF Poll, fileVars, CallInv, Listed
<1>10. CASE Crash
  BY <1>1, <1>2, <1>10 DEF Crash, fileVars, CallInv, Listed
<1>11. CASE Restart
  BY <1>1, <1>2, <1>11 DEF Restart, Sweep, memVars, CallInv, Listed
<1>12. CASE Merger
  <2>1. UNCHANGED <<queue, asked, found>> /\ shown' \in {<<>>, shown}
    BY <1>12 DEF Merger, MergeGate, FastForward, MergeRefused, ClearReviewState, memVars, fileVars
  <2>2. Listed(shown')
    BY <1>1, <1>2, <2>1
  <2> QED BY <1>1, <2>1, <2>2 DEF CallInv, Listed
<1>13. CASE (\E b \in Branches : StartWriting(b) \/ CommitWork(b) \/ Rebase(b)) \/ UNCHANGED vars
  <2>1. UNCHANGED <<queue, shown, asked, found>>
    BY <1>13 DEF StartWriting, CommitWork, Rebase, memVars, fileVars, vars
  <2> QED BY <1>1, <2>1 DEF CallInv, Listed
<1> QED
  BY <1>3, <1>4, <1>5, <1>6, <1>7, <1>8, <1>9, <1>10, <1>11, <1>12, <1>13
     DEF Next, Tasks, Reviewer, Review, Continue

\* What is left of the types.
RestInv ==
    /\ live \in [Branches -> Tips] /\ behind \subseteq Branches /\ dirty \subseteq Branches
    /\ latest \in MaybeBranch /\ progress \in Commit \union {NoCommit}
    /\ up \in BOOLEAN /\ busy \in BOOLEAN
    /\ review \subseteq [unit : Commit, at : {"checks", "cleanup"}]
    /\ merging \subseteq [unit : Commit, at : {"checked", "merged"}]
    /\ ready \subseteq Commit /\ merged \subseteq Commit
    /\ asks \in 0..MaxAsks
    /\ crashes \in Nat /\ failed \in Nat /\ crashes + failed <= MaxFaults

LEMMA WriteFailsIsTyped ==
    ASSUME RestInv, WriteFails, UNCHANGED crashes
    PROVE  crashes' \in Nat /\ failed' \in Nat /\ crashes' + failed' <= MaxFaults
  BY ConstantsAssumption DEF ConstantsAssumption, RestInv, WriteFails

LEMMA RestInvStep == MergeInv /\ CallInv /\ RestInv /\ [Next]_vars => RestInv'
<1> SUFFICES ASSUME MergeInv, CallInv, RestInv, [Next]_vars PROVE RestInv'
  OBVIOUS
<1> USE ConstantsAssumption DEF RestInv
<1>1. ASSUME NEW b \in Branches, StartWriting(b) \/ CommitWork(b) \/ Rebase(b) PROVE RestInv'
  BY <1>1 DEF StartWriting, CommitWork, Rebase, fileVars, memVars, boundVars
<1>2. ASSUME NEW b \in Branches, Ask(b) PROVE RestInv'
  BY <1>2 DEF Ask, Persist, fileVars, gitVars, ConstantsAssumption
<1>3. ASSUME NEW c \in asked, Detects(c) \/ DetectsNothing(c) PROVE RestInv'
  BY <1>3 DEF Detects, DetectsNothing, fileVars, gitVars, boundVars
<1>4. ASSUME NEW f \in found, StartReview(f) PROVE RestInv'
  <2>1. f.unit \in Commit /\ [unit |-> f.unit, at |-> "checks"] \in [unit : Commit, at : {"checks", "cleanup"}]
    BY DEF CallInv, Finds
  <2>2. UNCHANGED <<live, behind, dirty, latest, up, merging, ready, merged, asks, crashes>> /\ busy' = TRUE
    BY <1>4 DEF StartReview, gitVars
  <2>3. CASE UNCHANGED failed /\ progress' = f.unit
             /\ review' = review \union {[unit |-> f.unit, at |-> "checks"]}
    BY <2>1, <2>2, <2>3
  <2>4. CASE WriteFails /\ UNCHANGED <<progress, review>>
    BY <2>2, <2>4, WriteFailsIsTyped
  <2> QED BY <1>4, <2>3, <2>4 DEF StartReview
<1>5. ASSUME NEW f \in found, YieldToReview(f) PROVE RestInv'
  <2>1. UNCHANGED <<live, behind, dirty, latest, progress, up, busy, review, merging, ready, merged,
                    asks, crashes>>
    BY <1>5 DEF YieldToReview, gitVars
  <2>2. UNCHANGED failed \/ WriteFails
    BY <1>5 DEF YieldToReview, Persist
  <2> QED BY <2>1, <2>2, WriteFailsIsTyped
<1>6. ASSUME NEW r \in review, RecordVerdict(r) \/ ReviewErrs(r) PROVE RestInv'
  <2>1. UNCHANGED <<live, behind, dirty, up, busy, merging, merged, asks, crashes>>
    BY <1>6 DEF RecordVerdict, ReviewErrs, gitVars, boundVars
  <2>2. r.unit \in Commit /\ r.unit.branch \in Branches
    BY DEF Commit
  <2>3. [r EXCEPT !.at = "cleanup"] \in [unit : Commit, at : {"checks", "cleanup"}]
    OBVIOUS
  <2>4. review' \subseteq [unit : Commit, at : {"checks", "cleanup"}]
    BY <1>6, <2>3 DEF RecordVerdict, ReviewErrs, Advance
  <2>5. ready' \subseteq Commit
    BY <1>6, <2>2 DEF RecordVerdict, ReviewErrs
  <2>6. latest' \in MaybeBranch /\ progress' \in Commit \union {NoCommit}
    BY <1>6, <2>2 DEF RecordVerdict, ReviewErrs, Record, MaybeBranch
  <2>7. UNCHANGED failed \/ WriteFails
    BY <1>6 DEF RecordVerdict, ReviewErrs, boundVars
  <2>8. crashes' \in Nat /\ failed' \in Nat /\ crashes' + failed' <= MaxFaults
    BY <2>1, <2>7, WriteFailsIsTyped
  <2> QED BY <2>1, <2>4, <2>5, <2>6, <2>8
<1>7. ASSUME NEW r \in review, FinishReview(r) PROVE RestInv'
  <2>1. UNCHANGED <<live, behind, dirty, latest, progress, up, merging, ready, merged, asks, crashes>>
        /\ review' \subseteq review /\ busy' = FALSE
    BY <1>7 DEF FinishReview, gitVars
  <2>2. UNCHANGED failed \/ WriteFails
    BY <1>7 DEF FinishReview, Shift, Persist
  <2> QED BY <2>1, <2>2, WriteFailsIsTyped
<1>8. CASE Poll
  BY <1>8 DEF Poll, fileVars, gitVars, boundVars
<1>9. CASE Crash
  <2>1. UNCHANGED <<live, behind, dirty, latest, progress, merging, ready, merged>>
        /\ up' = FALSE /\ busy' = FALSE /\ review' = {}
    BY <1>9 DEF Crash, gitVars, fileVars
  <2>2. /\ asks' \in 0..MaxAsks
        /\ crashes' \in Nat /\ failed' \in Nat /\ crashes' + failed' <= MaxFaults
    BY <1>9, WriteFailsIsTyped DEF Crash, ConstantsAssumption
  <2> QED BY <2>1, <2>2
<1>10. CASE Restart
  BY <1>10 DEF Restart, Sweep, gitVars, memVars, boundVars
<1>11. ASSUME NEW b \in Branches, MergeGate(b) PROVE RestInv'
  <2>1. [unit |-> Tip(b), at |-> "checked"] \in [unit : Commit, at : {"checked", "merged"}]
    BY TipIsCommit
  <2> QED BY <1>11, <2>1 DEF MergeGate, gitVars, fileVars, memVars, boundVars
<1>12. ASSUME NEW m \in merging, FastForward(m) PROVE RestInv'
  <2>1. /\ m.unit.branch \in Branches /\ m.unit.sha \in Tips
        /\ [branch |-> m.unit.branch, sha |-> m.unit.sha] \in Commit
        /\ [m EXCEPT !.at = "merged"] \in [unit : Commit, at : {"checked", "merged"}]
    BY DEF Commit
  <2>2. UNCHANGED <<dirty, latest, progress, up, busy, review, ready, asks, crashes, failed>>
    BY <1>12 DEF FastForward, fileVars, memVars, boundVars
  <2>3. live' \in [Branches -> Tips] /\ behind' \subseteq Branches /\ merged' \subseteq Commit
    BY <1>12, <2>1 DEF FastForward, MergedSha
  <2>4. merging' \subseteq [unit : Commit, at : {"checked", "merged"}]
    BY <1>12, <2>1 DEF FastForward
  <2> QED BY <2>2, <2>3, <2>4
<1>13. ASSUME NEW m \in merging, MergeRefused(m) \/ ClearReviewState(m) PROVE RestInv'
  <2>1. UNCHANGED <<live, behind, dirty, up, busy, review, ready, merged, asks, crashes>>
        /\ merging' \subseteq merging
    BY <1>13 DEF MergeRefused, ClearReviewState, gitVars, memVars, boundVars
  <2>2. latest' \in {None, latest} /\ progress' \in {NoCommit, progress}
    BY <1>13 DEF MergeRefused, ClearReviewState, fileVars
  <2>3. UNCHANGED failed \/ WriteFails
    BY <1>13 DEF MergeRefused, ClearReviewState, boundVars
  <2> QED BY <2>1, <2>2, <2>3, WriteFailsIsTyped DEF MaybeBranch
<1>14. CASE UNCHANGED vars
  BY <1>14 DEF vars
<1> QED
  BY <1>1, <1>2, <1>3, <1>4, <1>5, <1>6, <1>7, <1>8, <1>9, <1>10, <1>11, <1>12, <1>13, <1>14
     DEF Next, Tasks, Reviewer, Review, Continue, Merger

LEMMA TypesInit == Init => CallInv /\ RestInv
<1> SUFFICES ASSUME Init PROVE CallInv /\ RestInv
  OBVIOUS
<1>1. CallInv
  <2>1. Listed(<<>>) /\ queue = <<>> /\ shown = <<>> /\ asked = {} /\ found = {}
    BY DEF Init, Listed
  <2>2. Listed(queue) /\ Listed(shown)
    BY <2>1
  <2> QED BY <2>1, <2>2 DEF CallInv
<1>2. RestInv
  <2>1. 0 \in Tips /\ 0 \in 0..MaxAsks /\ 0 \in Nat /\ 0 + 0 <= MaxFaults
    BY ConstantsAssumption DEF ConstantsAssumption, Tips
  <2>2. live \in [Branches -> Tips] /\ asks \in 0..MaxAsks
    BY <2>1 DEF Init
  <2>3. crashes \in Nat /\ failed \in Nat /\ crashes + failed <= MaxFaults
    BY <2>1 DEF Init
  <2>4. /\ behind = {} /\ dirty = {} /\ latest \in MaybeBranch /\ progress \in Commit \union {NoCommit}
        /\ up \in BOOLEAN /\ busy \in BOOLEAN
        /\ review = {} /\ merging = {} /\ ready = {} /\ merged = {}
    BY DEF Init, MaybeBranch
  <2> QED BY <2>2, <2>3, <2>4 DEF RestInv
<1> QED BY <1>1, <1>2

\* Every variable of the reviewer, its queue, state.json and the merge endpoint has
\* its type; queueReview never queues a branch twice, so that the queue and what the
\* file shows of it are never longer than the project has branches.
THEOREM TypeCorrect == Spec => []TypeOK
<1>1. MergeInv /\ CallInv /\ RestInv => TypeOK
  <2> SUFFICES ASSUME MergeInv, CallInv, RestInv PROVE TypeOK
    OBVIOUS
  <2>1. made \in Tips
    BY ConstantsAssumption DEF ConstantsAssumption, MergeInv, UnitTypes, Tips
  <2>2. \A s \in {queue, shown} :
          /\ s \in Seq(Branches)
          /\ \A i, j \in 1..Len(s) : s[i] = s[j] => i = j
    BY DEF CallInv, Listed
  <2> QED BY <2>1, <2>2 DEF TypeOK, MergeInv, UnitTypes, CallInv, RestInv, Calls, Finds
<1> QED BY <1>1, MergeInvInit, MergeInvStep, TypesInit, CallInvStep, RestInvStep, PTL DEF Spec

=============================================================================
