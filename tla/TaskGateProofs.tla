--------------------------- MODULE TaskGateProofs ---------------------------
(***************************************************************************)
(* Theorems about TaskGate, for every value of its constants: the types of *)
(* its variables, and on top of them that what merges was reviewed, that   *)
(* the gate never routes into itself, and whose approval the gate acts on. *)
(***************************************************************************)
EXTENDS TaskGate, TLAPS

\* The part of the state a node's result writes, and the rest.
NodeTyped ==
    /\ cp \in Checkpoints /\ episode \in Episodes /\ pc \in Places
    /\ sha \in MaybeSha /\ appr \in MaybeSha /\ retry \in MaybeSha
    /\ judged \in Verdicts /\ offTip \in BOOLEAN

GitTyped ==
    /\ patch \in [0..N -> 0..N] /\ used \in 0..N /\ head \in 0..N
    /\ own \subseteq Commits /\ landed \subseteq Commits
    /\ dirty \in BOOLEAN /\ insync \in BOOLEAN

WorldTyped ==
    /\ rec \in [sha : MaybeSha, verdict : Verdicts, since : BOOLEAN]
    /\ reviewing \in MaybeSha /\ status \in Statuses /\ panel \in MaybeSha
    /\ blessed \subseteq 0..N /\ ready \subseteq 0..N
    /\ merged \subseteq 0..N /\ pushed \subseteq 0..N /\ deployed \in BOOLEAN
    /\ unseen \in BOOLEAN
    /\ edited \in 0..MaxEdits /\ moved \in 0..MaxLive
    /\ crashed \in 0..MaxCrash /\ ops \in 0..MaxOps

LEMMA TypeParts == /\ TypeOK <=> NodeTyped /\ GitTyped /\ WorldTyped
                   /\ TypeOK' <=> NodeTyped' /\ GitTyped' /\ WorldTyped'
BY DEF TypeOK, NodeTyped, GitTyped, WorldTyped

worldVars == <<recVars, shipVars, boundVars, status, panel, blessed, ready>>

LEMMA WorldUnchanged == WorldTyped /\ UNCHANGED worldVars => WorldTyped'
BY DEF WorldTyped, worldVars, recVars, shipVars, boundVars

LEMMA WorldLooked ==
    ASSUME WorldTyped, NEW d \in BOOLEAN, Overlooks(d),
           UNCHANGED <<recVars, boundVars, status, panel, blessed, ready>>
    PROVE  WorldTyped'
BY DEF WorldTyped, Overlooks, recVars, boundVars

LEMMA GitUnchanged == GitTyped /\ UNCHANGED gitVars => GitTyped'
BY DEF GitTyped, gitVars

-----------------------------------------------------------------------------
(* Commit ids and what the operators on checkpoints return *)

LEMMA NIsNat == N \in Nat
BY ConstantsAssumption DEF N

LEMMA ShaTypes ==
    /\ NoSha \in MaybeSha /\ Base \in MaybeSha
    /\ 0..N \subseteq MaybeSha /\ Commits \subseteq 0..N
    /\ \A s \in MaybeSha : s # NoSha => s \in 0..N
BY NIsNat DEF NoSha, Base, MaybeSha, Commits

LEMMA RouteType == ASSUME NEW c PROVE Route(c) \in {"work", "verify", "end"}
BY DEF Route

LEMMA EscalateType ==
    ASSUME NEW c \in Checkpoints, NEW w \in Whys
    PROVE  Escalate(c, w) \in Checkpoints
BY DEF Escalate, Checkpoints

LEMMA LoopBackType ==
    ASSUME NEW c \in Checkpoints
    PROVE  LoopBack(c) \in Checkpoints
<1>1. \A l \in Int : [c EXCEPT !.left = l] \in Checkpoints
  BY DEF Checkpoints
<1>2. c.left - 1 \in Int
  BY DEF Checkpoints
<1>3. [c EXCEPT !.left = c.left - 1] \in Checkpoints
  BY <1>1, <1>2
<1>z. 0 \in 0..1
  OBVIOUS
<1>4. \A d \in Checkpoints :
        [d EXCEPT !.feedback = TRUE, !.nodiff = 0] \in Checkpoints
  BY <1>z DEF Checkpoints
<1>5. LoopBack(c) = [[c EXCEPT !.left = c.left - 1]
                        EXCEPT !.feedback = TRUE, !.nodiff = 0]
  BY DEF LoopBack, Checkpoints
<1> QED
  BY <1>3, <1>4, <1>5

LEMMA GrantType ==
    ASSUME NEW c \in Checkpoints
    PROVE  [c EXCEPT !.left = @ + Grant] \in Checkpoints
<1>1. \A l \in Int : [c EXCEPT !.left = l] \in Checkpoints
  BY DEF Checkpoints
<1>2. c.left + Grant \in Int
  BY ConstantsAssumption DEF Checkpoints
<1> QED
  BY <1>1, <1>2

LEMMA VoidType ==
    ASSUME NEW c \in Checkpoints
    PROVE  Void(c) \in Checkpoints
BY ShaTypes DEF Void, Checkpoints

LEMMA HealthyType ==
    ASSUME NEW c \in Checkpoints
    PROVE  Healthy(c) \in Checkpoints
BY DEF Healthy, Checkpoints, Whys

LEMMA FreshType ==
    ASSUME NEW c \in Checkpoints
    PROVE  Fresh(c) \in Checkpoints
<1>1. \A z \in 0..1 : [c EXCEPT !.nodiff = z] \in Checkpoints
  BY DEF Checkpoints
<1> QED
  BY <1>1 DEF Fresh

LEMMA SentBackType ==
    ASSUME NEW c \in Checkpoints
    PROVE  SentBack(c) \in Checkpoints
<1>1. Void(Fresh(c)) \in Checkpoints
  BY FreshType, VoidType
<1> QED
  BY <1>1 DEF SentBack, Checkpoints

LEMMA NextType ==
    ASSUME NEW c \in Checkpoints, NEW n \in {"work", "verify", "end"}
    PROVE  [c EXCEPT !.next = n] \in Checkpoints
BY DEF Checkpoints

LEMMA ReviewedType ==
    ASSUME TypeOK
    PROVE  Reviewed \in Checkpoints /\ Passed \in Checkpoints
<1>1. /\ rec.verdict \in Verdicts /\ judged \in Verdicts
      /\ sha \in MaybeSha /\ cp \in Checkpoints
  BY DEF TypeOK
<1> QED
  BY <1>1 DEF Reviewed, Passed, Checkpoints
-----------------------------------------------------------------------------
(* The ways a node ends, and the ways a branch moves *)

LEMMA FinishTyped ==
    ASSUME TypeOK, NEW c \in Checkpoints, NEW o \in Episodes, Finish(c, o)
    PROVE  NodeTyped'
<1>1. cp' \in Checkpoints
  BY RouteType, NextType DEF Finish
<1>2. episode' \in Episodes
  BY DEF Finish, TypeOK, Episodes
<1> QED
  BY <1>1, <1>2, ShaTypes DEF Finish, NodeTyped, Places, Verdicts

LEMMA DoneTyped ==
    ASSUME TypeOK, NEW c \in Checkpoints, NEW o \in Episodes, Done(c, o)
    PROVE  NodeTyped'
<1> DEFINE r == IF retry # NoSha THEN retry ELSE c.retried
<1>1. r \in MaybeSha
  BY DEF TypeOK, Checkpoints
<1>2. [c EXCEPT !.edits = NoSha, !.retried = r] \in Checkpoints
  BY <1>1, ShaTypes DEF Checkpoints
<1> QED
  BY <1>2, FinishTyped DEF Done

LEMMA ThrowTyped ==
    ASSUME TypeOK, Throw
    PROVE  NodeTyped'
<1>1. PICK w \in {"gateInfra", "other"} :
        Finish([Escalate(cp, w) EXCEPT !.edits = NoSha], episode)
  BY DEF Throw
<1>2. Escalate(cp, w) \in Checkpoints
  BY EscalateType DEF TypeOK, Whys
<1>3. [Escalate(cp, w) EXCEPT !.edits = NoSha] \in Checkpoints
  BY <1>2, ShaTypes DEF Checkpoints
<1> QED
  BY <1>1, <1>3, FinishTyped DEF TypeOK

LEMMA MintTyped ==
    ASSUME GitTyped, NEW c \in 0..N, NEW p, Mint(c, p)
    PROVE  /\ patch' \in [0..N -> 0..N] /\ used' \in 0..N /\ head' \in 0..N
           /\ c \in Commits
<1>1. c \in Commits /\ c \in 0..N
  BY NIsNat DEF Mint, Commits, GitTyped
<1>2. p \in 0..N
  BY <1>1 DEF Mint, GitTyped
<1> QED
  BY <1>1, <1>2 DEF Mint, GitTyped

LEMMA RebaseTyped ==
    ASSUME GitTyped, NEW c \in 0..N, NEW p, Rebase(c, p), UNCHANGED <<dirty, landed>>
    PROVE  GitTyped'
<1>1. CASE Ahead
  <2>1. Mint(c, p) /\ own' = {c} /\ insync' = TRUE
    BY <1>1 DEF Rebase
  <2> QED
    BY <2>1, MintTyped DEF GitTyped
<1>2. CASE ~Ahead
  BY <1>2, NIsNat DEF Rebase, GitTyped, Base
<1> QED
  BY <1>1, <1>2

-----------------------------------------------------------------------------
(* Every action keeps the types *)

LEMMA WorkTyped ==
    ASSUME TypeOK, Work
    PROVE  TypeOK'
<1> USE TypeParts
<1>1. CASE WorkspaceUnavailable
  <2>1. Escalate(cp, "other") \in Checkpoints
    BY EscalateType DEF NodeTyped, Whys
  <2>2. NodeTyped'
    BY <1>1, <2>1, NextType DEF WorkspaceUnavailable, NodeTyped, localVars
  <2> QED
    BY <1>1, <2>2, GitUnchanged, WorldUnchanged DEF WorkspaceUnavailable, worldVars
<1>2. CASE StartWork
  <2>1. NodeTyped'
    BY <1>2 DEF StartWork, NodeTyped, localVars, Places
  <2>2. GitTyped'
    <3>1. CASE UNCHANGED gitVars
      BY <3>1, GitUnchanged
    <3>2. CASE UNCHANGED <<dirty, landed>> /\ \E c, p \in 0..N : Rebase(c, p)
      BY <3>2, RebaseTyped
    <3>3. CASE UNCHANGED <<dirty, landed>> /\ OntoBase /\ UNCHANGED <<patch, used>>
      <4>1. GitTyped /\ patch' = patch /\ used' = used /\ dirty' = dirty
            /\ landed' = landed /\ head' = 0 /\ own' = {} /\ insync' = TRUE
        BY <3>3 DEF OntoBase, Base
      <4>2. 0 \in 0..N
        BY NIsNat
      <4> QED
        BY <4>1, <4>2 DEF GitTyped
    <3>4. RestoreTaskWorkspace
      BY <1>2 DEF StartWork
    <3>5. \/ UNCHANGED gitVars
          \/ UNCHANGED <<dirty, landed>> /\ \E c, p \in 0..N : Rebase(c, p)
          \/ UNCHANGED <<dirty, landed>> /\ OntoBase /\ UNCHANGED <<patch, used>>
      BY <3>4 DEF RestoreTaskWorkspace
    <3> QED
      BY <3>1, <3>2, <3>3, <3>5
  <2> QED
    BY <1>2, <2>1, <2>2, WorldUnchanged DEF StartWork, worldVars
<1>3. CASE AgentEdits
  <2>1. (edited + 1) \in 0..MaxEdits
    BY <1>3, ConstantsAssumption DEF AgentEdits, WorldTyped
  <2>2. WorldTyped'
    BY <1>3, <2>1 DEF AgentEdits, WorldTyped, recVars, shipVars
  <2> QED
    BY <1>3, <2>2 DEF AgentEdits, NodeTyped, GitTyped, localVars
<1>4. CASE AgentCommits
  <2>1. PICK c \in Commits : Mint(c, c) /\ own' = own \union {c}
    BY <1>4 DEF AgentCommits
  <2>2. GitTyped'
    BY <1>4, <2>1, MintTyped, ShaTypes DEF AgentCommits, GitTyped
  <2> QED
    BY <1>4, <2>2, WorldUnchanged DEF AgentCommits, NodeTyped, localVars, worldVars
<1>5. CASE WorkEnds
  <2>1. cp' \in Checkpoints
    <3>1. PICK w \in {"none", "workInfra", "other"}, p \in BOOLEAN :
            cp' = [cp EXCEPT !.escalated = (w # "none"), !.why = w, !.paused = p,
                             !.feedback = FALSE, !.decision = FALSE, !.next = "verify"]
      BY <1>5 DEF WorkEnds
    <3>2. w \in Whys /\ (w # "none") \in BOOLEAN
      BY DEF Whys
    <3>3. \A b \in BOOLEAN : [cp EXCEPT !.escalated = b, !.why = w, !.paused = p,
                                       !.feedback = FALSE, !.decision = FALSE,
                                       !.next = "verify"] \in Checkpoints
      BY <3>2 DEF NodeTyped, Checkpoints
    <3> QED
      BY <3>1, <3>2, <3>3
  <2>2. NodeTyped'
    BY <1>5, <2>1 DEF WorkEnds, NodeTyped, localVars, Places
  <2> QED
    BY <1>5, <2>2, GitUnchanged, WorldUnchanged DEF WorkEnds, worldVars
<1> QED
  BY <1>1, <1>2, <1>3, <1>4, <1>5 DEF Work

\* What an action that ends the pass of the gate leaves alone.
quietVars == <<gitVars, recVars, shipVars, boundVars, status, panel, blessed, ready>>

LEMMA Ended ==
    ASSUME TypeOK, NodeTyped', UNCHANGED quietVars
    PROVE  TypeOK'
<1>1. UNCHANGED gitVars /\ UNCHANGED worldVars
  BY DEF quietVars, worldVars
<1> QED
  BY <1>1, TypeParts, GitUnchanged, WorldUnchanged

LEMMA LookEnds ==
    ASSUME TypeOK, NodeTyped', NEW d \in BOOLEAN, Overlooks(d),
           UNCHANGED <<gitVars, recVars, boundVars, status, panel, blessed, ready>>
    PROVE  TypeOK'
<1>1. UNCHANGED gitVars
  OBVIOUS
<1> QED
  BY <1>1, TypeParts, GitUnchanged, WorldLooked

LEMMA DoneEnds ==
    ASSUME TypeOK, NEW c \in Checkpoints, NEW o \in Episodes, Done(c, o),
           UNCHANGED quietVars
    PROVE  TypeOK'
BY DoneTyped, Ended

\* The results the gate builds, typed.
LEMMA ResultTypes ==
    ASSUME NEW c \in Checkpoints, NEW s \in MaybeSha, NEW w \in Whys
    PROVE  /\ [LoopBack(c) EXCEPT !.committed = s] \in Checkpoints
           /\ [LoopBack(c) EXCEPT !.approved = NoSha] \in Checkpoints
           /\ LoopBack(Void(c)) \in Checkpoints
           /\ [LoopBack(Void(c)) EXCEPT !.parked = NoSha] \in Checkpoints
           /\ [c EXCEPT !.committed = s] \in Checkpoints
           /\ [c EXCEPT !.parked = s] \in Checkpoints
           /\ Escalate(c, w) \in Checkpoints
           /\ Escalate(Void(c), w) \in Checkpoints
           /\ [Void(c) EXCEPT !.committed = NoSha, !.parked = NoSha] \in Checkpoints
           /\ [c EXCEPT !.committed = NoSha, !.parked = NoSha,
                        !.approved = NoSha] \in Checkpoints
<1>1. LoopBack(c) \in Checkpoints /\ Void(c) \in Checkpoints
  BY LoopBackType, VoidType
<1>2. LoopBack(Void(c)) \in Checkpoints /\ Escalate(Void(c), w) \in Checkpoints
  BY <1>1, LoopBackType, EscalateType
<1>3. \A d \in Checkpoints :
        /\ [d EXCEPT !.committed = s] \in Checkpoints
        /\ [d EXCEPT !.parked = s] \in Checkpoints
        /\ [d EXCEPT !.approved = NoSha] \in Checkpoints
        /\ [d EXCEPT !.parked = NoSha] \in Checkpoints
  BY ShaTypes DEF Checkpoints
<1>4. \A d \in Checkpoints :
        /\ [d EXCEPT !.committed = NoSha, !.parked = NoSha] \in Checkpoints
        /\ [d EXCEPT !.committed = NoSha, !.parked = NoSha,
                     !.approved = NoSha] \in Checkpoints
  BY ShaTypes DEF Checkpoints
<1> QED
  BY <1>1, <1>2, <1>3, <1>4, EscalateType

LEMMA BaseFacts ==
    ASSUME TypeOK
    PROVE  /\ cp \in Checkpoints /\ episode \in Episodes /\ sha \in MaybeSha
           /\ head \in MaybeSha /\ head \in 0..N /\ Pending \in MaybeSha
           /\ {"shipped", "done_no_changes"} \subseteq Episodes
           /\ {"gateInfra", "workInfra", "other"} \subseteq Whys
BY ShaTypes DEF TypeOK, Pending, Episodes, Whys

LEMMA OpeningTyped ==
    ASSUME TypeOK, GateDeclines \/ GateRefusesEdits \/ GateOpens
    PROVE  TypeOK'
<1>1. CASE GateDeclines
  <2>1. /\ Escalate(cp, "other") \in Checkpoints
        /\ [cp EXCEPT !.committed = NoSha, !.parked = NoSha,
                      !.approved = NoSha] \in Checkpoints
    BY BaseFacts, ResultTypes
  <2>2. PICK c \in Checkpoints, o \in Episodes : Finish(c, o)
    BY <1>1, <2>1, BaseFacts DEF GateDeclines
  <2> QED
    BY <1>1, <2>2, FinishTyped, Ended DEF GateDeclines, quietVars
<1>2. CASE GateRefusesEdits
  <2>1. Escalate(cp, "other") \in Checkpoints
    BY BaseFacts, EscalateType
  <2>2. [Escalate(cp, "other") EXCEPT !.edits = NoSha] \in Checkpoints
    BY <2>1, ShaTypes DEF Checkpoints
  <2>3. NodeTyped'
    BY <1>2, <2>2, BaseFacts, FinishTyped DEF GateRefusesEdits
  <2>4. GitTyped'
    BY <1>2, TypeParts DEF GateRefusesEdits, GitTyped
  <2> QED
    BY <1>2, <2>3, <2>4, TypeParts, WorldUnchanged DEF GateRefusesEdits, worldVars
<1>3. CASE GateOpens
  <2>1. NodeTyped'
    BY <1>3, TypeParts DEF GateOpens, NodeTyped, Checkpoints, Places, Interior
  <2>2. GitTyped'
    BY <1>3, TypeParts DEF GateOpens, GitTyped
  <2> QED
    BY <1>3, <2>1, <2>2, TypeParts, WorldUnchanged DEF GateOpens, worldVars
<1> QED
  BY <1>1, <1>2, <1>3

LEMMA NoDiffTyped ==
    ASSUME TypeOK,
           ChecksFail \/ ConcludeInLive \/ NudgeCoder \/ NoDiff \/ HoldCommit
             \/ RebaseConflicts
    PROVE  TypeOK'
<1>0. TRUE \in BOOLEAN /\ dirty \in BOOLEAN
  BY DEF TypeOK
<1>1. /\ LoopBack(cp) \in Checkpoints /\ Escalate(cp, "other") \in Checkpoints
      /\ [LoopBack(cp) EXCEPT !.committed = Pending] \in Checkpoints
      /\ [LoopBack(cp) EXCEPT !.committed = head] \in Checkpoints
  BY BaseFacts, ResultTypes, LoopBackType
<1>2. 0 \in 0..1 /\ 1 \in 0..1
  OBVIOUS
<1>3. \A d \in Checkpoints : /\ [d EXCEPT !.nodiff = 0] \in Checkpoints
                             /\ [d EXCEPT !.nodiff = 1] \in Checkpoints
  BY <1>2 DEF Checkpoints
<1>4. [cp EXCEPT !.committed = NoSha, !.parked = NoSha, !.approved = NoSha,
                 !.seen = Pending, !.verdict = "READY"] \in Checkpoints
  BY BaseFacts, ShaTypes DEF Checkpoints, Verdicts
<1>5. \E c \in Checkpoints, o \in Episodes : Done(c, o)
  BY <1>1, <1>3, <1>4, BaseFacts
     DEF ChecksFail, ConcludeInLive, NudgeCoder, NoDiff, HoldCommit, RebaseConflicts
<1>6. CASE NoDiff
  <2>1. PICK d \in BOOLEAN : Overlooks(d)
    BY <1>0, <1>6 DEF NoDiff, NothingToShip
  <2>2. UNCHANGED <<gitVars, recVars, boundVars, status, panel, blessed, ready>>
    BY <1>6 DEF NoDiff
  <2> QED
    BY <1>5, <2>1, <2>2, DoneTyped, LookEnds
<1>7. CASE ~NoDiff
  <2>1. UNCHANGED quietVars
    BY <1>7 DEF ChecksFail, ConcludeInLive, NudgeCoder, HoldCommit, RebaseConflicts,
       quietVars
  <2> QED
    BY <1>5, <2>1, DoneEnds
<1> QED
  BY <1>6, <1>7

LEMMA TurnTyped ==
    ASSUME TypeOK, FastPath \/ AskAgain \/ Commit \/ RebaseCommit
    PROVE  TypeOK'
<1> USE TypeParts
<1>1. CASE FastPath
  <2>1. cp.approved \in MaybeSha /\ (cp.approved # head) \in BOOLEAN
    BY BaseFacts DEF Checkpoints
  <2>2. NodeTyped'
    BY <1>1, <2>1 DEF FastPath, TurnTo, NodeTyped, Places, Interior
  <2>3. Overlooks(FALSE) /\ UNCHANGED <<gitVars, recVars, boundVars, status, panel,
                                        blessed, ready>>
    BY <1>1 DEF FastPath
  <2> QED
    BY <2>2, <2>3, LookEnds
<1>2. CASE AskAgain
  <2>1. NodeTyped'
    BY <1>2, BaseFacts DEF AskAgain, TurnTo, NodeTyped, Places, Interior
  <2>2. Overlooks(dirty) /\ UNCHANGED <<gitVars, recVars, boundVars, status, panel,
                                        blessed, ready>>
    BY <1>2 DEF AskAgain
  <2>3. dirty \in BOOLEAN
    BY DEF TypeOK
  <2> QED
    BY <2>1, <2>2, <2>3, LookEnds
<1>3. CASE Commit
  <2>1. PICK c \in Commits : Mint(c, c) /\ own' = own \union {c}
    BY <1>3 DEF Commit
  <2>2. GitTyped'
    BY <1>3, <2>1, MintTyped, ShaTypes DEF Commit, GitTyped
  <2>3. NodeTyped'
    BY <1>3 DEF Commit, NodeTyped, localVars, Places, Interior
  <2>4. WorldTyped'
    <3>1. Overlooks(FALSE) /\ UNCHANGED <<recVars, boundVars, status, panel, blessed,
                                          ready>>
      BY <1>3 DEF Commit
    <3> QED
      BY <3>1, WorldLooked
  <2> QED
    BY <2>2, <2>3, <2>4
<1>4. CASE RebaseCommit
  <2>1. UNCHANGED <<dirty, landed>>
    BY <1>4 DEF RebaseCommit
  <2>2. CASE TurnTo(head) /\ UNCHANGED <<patch, used, head, own, insync>>
    <3>1. GitTyped'
      BY <2>1, <2>2 DEF GitTyped
    <3>2. NodeTyped'
      BY <1>4, <2>2, BaseFacts DEF RebaseCommit, TurnTo, NodeTyped, Places, Interior
    <3> QED
      BY <1>4, <3>1, <3>2, WorldUnchanged DEF RebaseCommit, worldVars
  <2>3. CASE \E c, p \in 0..N : Rebase(c, p) /\ TurnTo(c)
    <3>1. PICK c, p \in 0..N : Rebase(c, p) /\ TurnTo(c)
      BY <2>3
    <3>2. GitTyped'
      BY <2>1, <3>1, RebaseTyped
    <3>3. NodeTyped'
      BY <1>4, <3>1, ShaTypes DEF RebaseCommit, TurnTo, NodeTyped, Places, Interior
    <3> QED
      BY <1>4, <3>2, <3>3, WorldUnchanged DEF RebaseCommit, worldVars
  <2> QED
    BY <1>4, <2>2, <2>3 DEF RebaseCommit
<1> QED
  BY <1>1, <1>2, <1>3, <1>4

LEMMA ReviewedTyped ==
    ASSUME TypeOK,
           AskFails \/ ReviewTimesOut \/ Rejected \/ Park \/ CIFails \/ CIStops
             \/ ShipFails \/ DivergedConflicts \/ DeployFails
    PROVE  TypeOK'
<1>1. /\ [cp EXCEPT !.committed = sha] \in Checkpoints
      /\ Reviewed \in Checkpoints /\ Passed \in Checkpoints
  BY BaseFacts, ResultTypes, ReviewedType
<1>2. \A w \in Whys :
        /\ Escalate([cp EXCEPT !.committed = sha], w) \in Checkpoints
        /\ Escalate(Reviewed, w) \in Checkpoints
        /\ Escalate(Passed, w) \in Checkpoints
        /\ Escalate(Void(Passed), w) \in Checkpoints
  BY <1>1, ResultTypes, BaseFacts
<1>3. /\ [LoopBack(Reviewed) EXCEPT !.approved = NoSha] \in Checkpoints
      /\ [Reviewed EXCEPT !.parked = sha] \in Checkpoints
      /\ LoopBack(Void(Passed)) \in Checkpoints
      /\ [LoopBack(Void(Passed)) EXCEPT !.parked = NoSha] \in Checkpoints
  BY <1>1, ResultTypes, BaseFacts
<1>4. \E c \in Checkpoints, o \in Episodes : Done(c, o)
  BY <1>2, <1>3, BaseFacts DEF AskFails, ReviewTimesOut, Rejected, Park, CIFails,
     CIStops, ShipFails, DivergedConflicts, DeployFails
<1>5. UNCHANGED quietVars
  BY DEF AskFails, ReviewTimesOut, Rejected, Park, CIFails, CIStops, ShipFails,
     DivergedConflicts, DeployFails, quietVars
<1> QED
  BY <1>4, <1>5, DoneEnds

LEMMA WaitTyped ==
    ASSUME TypeOK, Ask \/ PassReview \/ CIPasses \/ Diverge
    PROVE  TypeOK'
<1> USE TypeParts
<1>1. CASE Ask
  <2>1. rec' \in [sha : MaybeSha, verdict : Verdicts, since : BOOLEAN]
    BY <1>1 DEF Ask, WorldTyped
  <2>2. WorldTyped'
    BY <1>1, <2>1 DEF Ask, WorldTyped, shipVars, boundVars
  <2>3. NodeTyped'
    BY <1>1 DEF Ask, NodeTyped, localVars, Places, Interior
  <2> QED
    BY <1>1, <2>2, <2>3, GitUnchanged DEF Ask
<1>2. CASE PassReview \/ CIPasses \/ Diverge
  <2>1. NodeTyped'
    <3>1. rec.verdict \in Verdicts
      BY DEF WorldTyped
    <3> QED
      BY <1>2, <3>1 DEF PassReview, CIPasses, Diverge, NodeTyped, localVars, Places,
         Interior
  <2> QED
    BY <1>2, <2>1, GitUnchanged, WorldUnchanged
       DEF PassReview, CIPasses, Diverge, worldVars
<1> QED
  BY <1>1, <1>2

LEMMA FastForwardTyped ==
    ASSUME TypeOK, FastForward
    PROVE  GitTyped' /\ WorldTyped'
<1> USE TypeParts
<1>1. GitTyped'
  BY DEF FastForward, GitTyped
<1>2. rec' \in [sha : MaybeSha, verdict : Verdicts, since : BOOLEAN]
  <2>1. [sha |-> NoSha, verdict |-> "NONE", since |-> FALSE]
          \in [sha : MaybeSha, verdict : Verdicts, since : BOOLEAN]
    BY ShaTypes DEF Verdicts
  <2>2. rec \in [sha : MaybeSha, verdict : Verdicts, since : BOOLEAN]
    BY DEF WorldTyped
  <2> QED
    BY <2>1, <2>2 DEF FastForward
<1>3. merged' \subseteq 0..N
  BY BaseFacts DEF FastForward, WorldTyped
<1> QED
  BY <1>1, <1>2, <1>3 DEF FastForward, WorldTyped, boundVars

LEMMA ShipTyped ==
    ASSUME TypeOK,
           Merge \/ MergeAnswerLost \/ OpenPullRequest \/ RebaseDiverged \/ Deploy
             \/ GateThrows
    PROVE  TypeOK'
<1> USE TypeParts
<1>1. CASE Merge
  <2>1. NodeTyped'
    BY <1>1 DEF Merge, NodeTyped, localVars, Places, Interior
  <2> QED
    BY <1>1, <2>1, FastForwardTyped DEF Merge
<1>2. CASE MergeAnswerLost
  BY <1>2, FastForwardTyped, ThrowTyped DEF MergeAnswerLost
<1>3. CASE OpenPullRequest \/ Deploy
  <2>1. [Void(Passed) EXCEPT !.committed = NoSha, !.parked = NoSha] \in Checkpoints
    BY ReviewedType, ResultTypes, BaseFacts
  <2>2. NodeTyped'
    BY <1>3, <2>1, DoneTyped, BaseFacts DEF OpenPullRequest, Deploy
  <2>3. pushed' \subseteq 0..N /\ deployed' \in BOOLEAN /\ merged' \subseteq 0..N
    BY <1>3, BaseFacts DEF OpenPullRequest, Deploy, WorldTyped
  <2>4. WorldTyped'
    BY <1>3, <2>3 DEF OpenPullRequest, Deploy, WorldTyped, recVars, boundVars
  <2> QED
    BY <1>3, <2>2, <2>4, GitUnchanged DEF OpenPullRequest, Deploy
<1>4. CASE RebaseDiverged
  <2>1. PICK c, p \in 0..N :
          Rebase(c, p) /\ TurnTo(c) /\ appr' = IF Carries(p) THEN c ELSE appr
    BY <1>4 DEF RebaseDiverged
  <2>2. GitTyped'
    BY <1>4, <2>1, RebaseTyped DEF RebaseDiverged
  <2>3. NodeTyped'
    BY <1>4, <2>1, ShaTypes DEF RebaseDiverged, TurnTo, NodeTyped, Places, Interior
  <2> QED
    BY <1>4, <2>2, <2>3, WorldUnchanged DEF RebaseDiverged, worldVars
<1>5. CASE GateThrows
  <2>1. UNCHANGED quietVars
    BY <1>5 DEF GateThrows, quietVars
  <2> QED
    BY <1>5, <2>1, ThrowTyped, Ended DEF GateThrows
<1> QED
  BY <1>1, <1>2, <1>3, <1>4, <1>5

LEMMA GateTyped ==
    ASSUME TypeOK, Gate
    PROVE  TypeOK'
BY OpeningTyped, NoDiffTyped, TurnTyped, ReviewedTyped, WaitTyped, ShipTyped DEF Gate

LEMMA RunTyped ==
    ASSUME TypeOK, MarkQueued \/ MarkRunning \/ EndRun \/ Crash \/ Stop
    PROVE  TypeOK'
<1> USE TypeParts
<1>1. CASE MarkQueued \/ MarkRunning
  <2>1. NodeTyped'
    BY <1>1 DEF MarkQueued, MarkRunning, NodeTyped, localVars, Places
  <2>2. WorldTyped'
    BY <1>1 DEF MarkQueued, MarkRunning, WorldTyped, recVars, shipVars, boundVars,
       Statuses
  <2> QED
    BY <1>1, <2>1, <2>2, GitUnchanged DEF MarkQueued, MarkRunning
<1>2. CASE EndRun
  <2>1. FinalStatus(cp) \in Statuses
    BY DEF FinalStatus, Statuses
  <2>2. NodeTyped'
    BY <1>2 DEF EndRun, NodeTyped, localVars, Places
  <2>3. WorldTyped'
    BY <1>2, <2>1 DEF EndRun, WorldTyped, recVars, shipVars, boundVars
  <2>4. GitTyped'
    BY <1>2 DEF EndRun, GitTyped
  <2> QED
    BY <2>2, <2>3, <2>4
<1>3. CASE Crash \/ Stop
  <2>1. PICK s \in Statuses : LoseDriver(s)
    BY <1>3 DEF Crash, Stop, WorldTyped, Statuses
  <2>2. crashed + 1 \in 0..MaxCrash
    BY <2>1, ConstantsAssumption DEF LoseDriver, WorldTyped
  <2>3. WorldTyped'
    BY <2>1, <2>2 DEF LoseDriver, WorldTyped, recVars, shipVars
  <2>4. NodeTyped'
    BY <2>1, ShaTypes DEF LoseDriver, NodeTyped, Places, Verdicts
  <2> QED
    BY <2>1, <2>3, <2>4, GitUnchanged DEF LoseDriver
<1> QED
  BY <1>1, <1>2, <1>3

LEMMA StartTyped ==
    ASSUME TypeOK, NEW c \in Checkpoints, NEW n \in {"work", "verify", "end"},
           Start(c, n),
           blessed' \subseteq 0..N, panel' \in MaybeSha,
           edited' \in 0..MaxEdits, ops' \in 0..MaxOps
    PROVE  TypeOK'
<1> USE TypeParts
<1>1. NodeTyped'
  BY NextType DEF Start, NodeTyped, localVars, Places
<1>2. WorldTyped'
  BY DEF Start, WorldTyped, recVars, shipVars
<1> QED
  BY <1>1, <1>2, GitUnchanged DEF Start

LEMMA DecideTyped ==
    ASSUME TypeOK, NEW c \in Checkpoints, NEW n \in {"work", "verify", "end"},
           Decide(c, n), UNCHANGED panel,
           blessed' \subseteq 0..N, edited' \in 0..MaxEdits
    PROVE  TypeOK'
<1>1. ops' \in 0..MaxOps
  BY ConstantsAssumption DEF Decide, TypeOK
<1> QED
  BY <1>1, StartTyped DEF Decide, TypeOK

LEMMA GrantedType ==
    ASSUME TypeOK
    PROVE  /\ Granted \in Checkpoints /\ Healthy(Granted) \in Checkpoints
           /\ SentBack(Healthy(Granted)) \in Checkpoints
           /\ SentBack(Granted) \in Checkpoints /\ SentBack(cp) \in Checkpoints
           /\ Fresh(Healthy(cp)) \in Checkpoints
           /\ SentBack(Healthy(cp)) \in Checkpoints
           /\ Void(Fresh(cp)) \in Checkpoints /\ Void(Healthy(cp)) \in Checkpoints
<1>1. Granted \in Checkpoints /\ cp \in Checkpoints
  BY GrantType, BaseFacts DEF Granted
<1>2. \A c \in Checkpoints : /\ Healthy(c) \in Checkpoints /\ Fresh(c) \in Checkpoints
                             /\ Void(c) \in Checkpoints
  BY HealthyType, FreshType, VoidType
<1>3. \A c \in Checkpoints : SentBack(c) \in Checkpoints
  BY SentBackType
<1> QED
  BY <1>1, <1>2, <1>3

LEMMA OperatorTyped ==
    ASSUME TypeOK, Operator
    PROVE  TypeOK'
<1>1. \A c \in Checkpoints :
        /\ [c EXCEPT !.parked = NoSha] \in Checkpoints
        /\ [c EXCEPT !.edits = cp.parked, !.parked = NoSha] \in Checkpoints
        /\ [c EXCEPT !.approved = cp.parked, !.parked = NoSha] \in Checkpoints
        /\ [c EXCEPT !.paused = FALSE, !.decision = TRUE,
                     !.feedback = TRUE] \in Checkpoints
  <2>1. cp.parked \in MaybeSha /\ NoSha \in MaybeSha
    BY BaseFacts, ShaTypes DEF Checkpoints
  <2>2. \A c \in Checkpoints : [c EXCEPT !.parked = NoSha] \in Checkpoints
    BY <2>1 DEF Checkpoints
  <2>3. \A c \in Checkpoints :
          /\ [c EXCEPT !.edits = cp.parked, !.parked = NoSha] \in Checkpoints
          /\ [c EXCEPT !.approved = cp.parked, !.parked = NoSha] \in Checkpoints
    BY <2>1 DEF Checkpoints
  <2>4. \A c \in Checkpoints : [c EXCEPT !.paused = FALSE, !.decision = TRUE,
                                         !.feedback = TRUE] \in Checkpoints
    BY DEF Checkpoints
  <2> QED
    BY <2>2, <2>3, <2>4
<1>2. cp.next \in {"work", "verify", "end"}
  BY BaseFacts DEF Checkpoints
<1>3. blessed \subseteq 0..N /\ {} \subseteq 0..N /\ edited \in 0..MaxEdits
  BY DEF TypeOK
<1>4. CASE ResumeShipping \/ (\E m \in BOOLEAN : ResumeWork(m)) \/ Reopen \/ CarryOn
  <2>1. PICK c \in Checkpoints, n \in {"work", "verify", "end"} :
          Decide(c, n) /\ UNCHANGED <<panel, edited>> /\ blessed' \subseteq 0..N
    <3> USE <1>3 DEF Withdraw
    <3>1. CASE ResumeShipping
      BY <1>1, <1>2, <3>1, GrantedType, RouteType DEF ResumeShipping
    <3>2. CASE \E m \in BOOLEAN : ResumeWork(m)
      BY <1>1, <1>2, <3>2, GrantedType, RouteType DEF ResumeWork
    <3>3. CASE Reopen
      BY <1>1, <1>2, <3>3, GrantedType, RouteType DEF Reopen
    <3>4. CASE CarryOn
      BY <1>1, <1>2, <3>4, GrantedType, RouteType DEF CarryOn
    <3> QED
      BY <1>4, <3>1, <3>2, <3>3, <3>4
  <2> QED
    BY <1>3, <2>1, DecideTyped
<1>5. CASE RequestChanges \/ CommandDecision
  <2>1. PICK c \in Checkpoints, n \in {"work", "verify", "end"} :
          Decide(c, n) /\ UNCHANGED <<panel, edited>> /\ blessed' \subseteq 0..N
    BY <1>1, <1>3, <1>5, GrantedType, RouteType, BaseFacts
       DEF RequestChanges, CommandDecision, Withdraw
  <2> QED
    BY <1>3, <2>1, DecideTyped
<1>6. CASE OpenPanel
  <2>1. panel' \in MaybeSha
    BY <1>6, BaseFacts DEF OpenPanel, Checkpoints
  <2> QED
    BY <1>6, <2>1 DEF OpenPanel, TypeOK, gitVars, recVars, shipVars, boundVars, localVars
<1>7. CASE MergeApprove
  <2>1. PICK c \in Checkpoints, n \in {"work", "verify", "end"} : Decide(c, n)
    BY <1>1, <1>7, RouteType, BaseFacts DEF MergeApprove
  <2>2. patch[panel] \in 0..N
    BY <1>7, ShaTypes DEF MergeApprove, TypeOK
  <2> QED
    BY <1>3, <1>7, <2>1, <2>2, DecideTyped DEF MergeApprove
<1>8. CASE OperatorEdit
  <2>1. PICK c \in Checkpoints : Decide(c, "verify")
    BY <1>1, <1>8, GrantedType DEF OperatorEdit
  <2>2. edited' \in 0..MaxEdits
    BY <1>3, <1>8, ConstantsAssumption DEF OperatorEdit
  <2> QED
    BY <1>3, <1>8, <2>1, <2>2, DecideTyped DEF OperatorEdit, Withdraw
<1> QED
  BY <1>4, <1>5, <1>6, <1>7, <1>8 DEF Operator

LEMMA SupervisorTyped ==
    ASSUME TypeOK, Supervisor
    PROVE  TypeOK'
<1> USE TypeParts
<1>1. CASE ConcludeLanded
  <2>1. PICK n \in {"work", "verify", "end"} :
          cp' = [Void(Healthy(cp)) EXCEPT !.parked = NoSha, !.feedback = FALSE,
                                         !.next = n]
    BY <1>1, RouteType DEF ConcludeLanded
  <2>2. \A d \in Checkpoints :
          [d EXCEPT !.parked = NoSha, !.feedback = FALSE, !.next = n] \in Checkpoints
    BY ShaTypes DEF Checkpoints
  <2>3. cp' \in Checkpoints
    BY <2>1, <2>2, GrantedType
  <2>4. NodeTyped'
    BY <1>1, <2>3 DEF ConcludeLanded, NodeTyped, localVars
  <2>5. WorldTyped'
    BY <1>1 DEF ConcludeLanded, WorldTyped, recVars, shipVars, boundVars, Statuses
  <2> QED
    BY <1>1, <2>4, <2>5, GitUnchanged DEF ConcludeLanded
<1>2. CASE Heal
  <2>1. PICK c \in Checkpoints, n \in {"work", "verify", "end"} : Decide(c, n)
    BY <1>2, GrantedType, RouteType DEF Heal
  <2> QED
    BY <1>2, <2>1, DecideTyped DEF Heal, Withdraw, TypeOK
<1>3. CASE SweepWorkspace
  <2>1. GitTyped'
    BY <1>3 DEF SweepWorkspace, GitTyped
  <2>2. NodeTyped'
    BY <1>3 DEF SweepWorkspace, NodeTyped, localVars
  <2> QED
    BY <1>3, <2>1, <2>2, WorldUnchanged DEF SweepWorkspace, worldVars
<1> QED
  BY <1>1, <1>2, <1>3 DEF Supervisor

LEMMA WorldTypes ==
    ASSUME TypeOK, StartReview \/ RecordVerdict \/ LiveMoves \/ AutoResume
    PROVE  TypeOK'
<1> USE TypeParts
<1>1. CASE StartReview
  <2>1. NodeTyped'
    BY <1>1 DEF StartReview, NodeTyped, localVars
  <2>2. WorldTyped'
    BY <1>1, BaseFacts DEF StartReview, WorldTyped, shipVars, boundVars
  <2> QED
    BY <1>1, <2>1, <2>2, GitUnchanged DEF StartReview
<1>2. CASE RecordVerdict
  <2>1. NodeTyped'
    BY <1>2 DEF RecordVerdict, NodeTyped, localVars
  <2>2. /\ rec' \in [sha : MaybeSha, verdict : Verdicts, since : BOOLEAN]
        /\ reviewing' \in MaybeSha /\ ready' \subseteq 0..N
    BY <1>2, ShaTypes DEF RecordVerdict, WorldTyped
  <2>3. WorldTyped'
    BY <1>2, <2>2 DEF RecordVerdict, WorldTyped, shipVars, boundVars
  <2> QED
    BY <1>2, <2>1, <2>3, GitUnchanged DEF RecordVerdict
<1>3. CASE LiveMoves
  <2>1. moved' \in 0..MaxLive
    BY <1>3, ConstantsAssumption DEF LiveMoves, WorldTyped
  <2>2. WorldTyped'
    BY <1>3, <2>1 DEF LiveMoves, WorldTyped, recVars, shipVars
  <2>3. NodeTyped' /\ GitTyped'
    BY <1>3 DEF LiveMoves, NodeTyped, GitTyped, localVars
  <2> QED
    BY <2>2, <2>3
<1>4. CASE AutoResume
  <2>1. [cp EXCEPT !.left = @ + Grant] \in Checkpoints
    BY GrantType, BaseFacts
  <2>2. cp.next \in {"work", "verify", "end"}
    BY BaseFacts DEF Checkpoints
  <2> QED
    BY <1>4, <2>1, <2>2, StartTyped DEF AutoResume, WorldTyped
<1> QED
  BY <1>1, <1>2, <1>3, <1>4

LEMMA InitTyped == Init => TypeOK
<1> SUFFICES ASSUME Init PROVE TypeOK
  OBVIOUS
<1> USE ShaTypes DEF Init
<1>0. 0 \in 0..N /\ [c \in 0..N |-> c] \in [0..N -> 0..N]
  BY NIsNat
<1>1. cp \in Checkpoints
  <2>1. 0 \in 0..1 /\ MaxIter \in Int
    BY ConstantsAssumption
  <2> QED
    BY <2>1 DEF Checkpoints, Whys, Verdicts
<1>2. NodeTyped
  BY <1>1 DEF NodeTyped, Places, Episodes, Verdicts
<1>3. GitTyped
  BY <1>0 DEF GitTyped, Base
<1>4. WorldTyped
  <2>1. 0 \in 0..MaxEdits /\ 0 \in 0..MaxLive /\ 0 \in 0..MaxCrash /\ 0 \in 0..MaxOps
    BY ConstantsAssumption
  <2>2. [sha |-> NoSha, verdict |-> "NONE", since |-> FALSE]
          \in [sha : MaybeSha, verdict : Verdicts, since : BOOLEAN]
    BY DEF Verdicts
  <2> QED
    BY <2>1, <2>2 DEF WorldTyped, Statuses
<1> QED
  BY <1>2, <1>3, <1>4, TypeParts

LEMMA StepTyped == TypeOK /\ [Next]_vars => TypeOK'
<1>1. ASSUME TypeOK, UNCHANGED vars PROVE TypeOK'
  BY <1>1 DEF TypeOK, vars
<1>2. ASSUME TypeOK, Next PROVE TypeOK'
  BY <1>2, WorkTyped, GateTyped, RunTyped, OperatorTyped, SupervisorTyped, WorldTypes
     DEF Next, Driver, World
<1> QED
  BY <1>1, <1>2

\* Every reachable state of one task, its branch and its review record is in
\* its domain; in particular the no-diff streak never passes the one nudge that
\* _verify_and_ship_inner believes.
THEOREM TypeCorrect == Spec => []TypeOK
BY InitTyped, StepTyped, PTL DEF Spec

-----------------------------------------------------------------------------
(* What merged was reviewed, and the gate never routes into itself *)

\* The gate holds a commit from TurnTo on, and has passed the final look from
\* PassReview on.
Shipping == {"ask", "review", "ci", "ship", "deploy", "diverged"}
PastLook == {"ci", "ship", "deploy", "diverged"}

\* The reviewer's record is of a real commit, and READY is remembered.
RecordInv ==
    /\ reviewing # Base
    /\ rec.verdict # "NONE" => rec.sha \notin {NoSha, Base}
    /\ rec.verdict = "READY" => rec.sha \in ready

\* Every commit the task or the gate speaks of has been minted, so that a new
\* one never takes its id and with it its patch.
MintedInv ==
    head <= used /\ sha <= used /\ appr <= used
        /\ cp.parked <= used /\ cp.approved <= used

\* What a gate that did not leave the tip of the branch holds.
TipInv ==
    /\ pc \notin Shipping => ~offTip
    /\ pc \in Shipping /\ ~offTip => sha = head
    /\ pc \notin Interior => appr = NoSha
    /\ ~offTip /\ appr \notin {NoSha, Base} => patch[appr] \in blessed
    /\ RequireReview /\ pc \in PastLook => sha = appr /\ sha \notin {NoSha, Base}

ReviewInv   == TypeOK /\ RecordInv /\ LandedWasReviewed
ApprovalInv == TypeOK /\ MintedInv /\ ApprovalStands
LookInv     == ApprovalInv /\ RecordInv /\ TipInv

-----------------------------------------------------------------------------
(* What merges was reviewed *)

\* The reviewer's record, its history and the merges, which few actions touch.
reviewVars == <<rec, reviewing, ready, merged>>

LEMMA GateLeavesReview ==
    ASSUME Gate, ~Ask, ~Merge, ~MergeAnswerLost
    PROVE  UNCHANGED reviewVars
<1> USE DEF reviewVars, recVars, shipVars, Overlooks, NothingToShip
<1>1. CASE \/ GateDeclines \/ GateRefusesEdits \/ GateOpens \/ FastPath \/ ChecksFail
           \/ ConcludeInLive \/ AskAgain \/ NudgeCoder \/ NoDiff \/ HoldCommit
           \/ Commit \/ RebaseCommit \/ RebaseConflicts
  BY <1>1 DEF GateDeclines, GateRefusesEdits, GateOpens, FastPath, ChecksFail,
     ConcludeInLive, AskAgain, NudgeCoder, NoDiff, HoldCommit, Commit, RebaseCommit,
     RebaseConflicts
<1>2. CASE \/ AskFails \/ ReviewTimesOut \/ Rejected \/ Park \/ PassReview \/ CIPasses
           \/ CIFails \/ CIStops
  BY <1>2 DEF AskFails, ReviewTimesOut, Rejected, Park, PassReview, CIPasses, CIFails,
     CIStops
<1>3. CASE \/ ShipFails \/ OpenPullRequest \/ Diverge \/ RebaseDiverged
           \/ DivergedConflicts \/ Deploy \/ DeployFails \/ GateThrows
  BY <1>3 DEF ShipFails, OpenPullRequest, Diverge, RebaseDiverged, DivergedConflicts,
     Deploy, DeployFails, GateThrows
<1> QED
  BY <1>1, <1>2, <1>3 DEF Gate

LEMMA OthersLeaveReview ==
    ASSUME MarkQueued \/ MarkRunning \/ Work \/ EndRun \/ Operator \/ Supervisor
             \/ LiveMoves \/ Crash \/ Stop \/ AutoResume
    PROVE  UNCHANGED reviewVars
<1> USE DEF reviewVars, recVars, shipVars
<1>1. CASE MarkQueued \/ MarkRunning \/ Work \/ EndRun
  BY <1>1 DEF MarkQueued, MarkRunning, EndRun, Work, WorkspaceUnavailable, StartWork,
     AgentEdits, AgentCommits, WorkEnds
<1>2. CASE Operator
  BY <1>2 DEF Operator, ResumeShipping, ResumeWork, Reopen, CarryOn, OpenPanel,
     MergeApprove, RequestChanges, OperatorEdit, CommandDecision, Decide, Start
<1>3. CASE Supervisor
  BY <1>3 DEF Supervisor, ConcludeLanded, Heal, SweepWorkspace, Decide, Start
<1>4. CASE LiveMoves \/ Crash \/ Stop \/ AutoResume
  BY <1>4 DEF LiveMoves, Crash, Stop, LoseDriver, AutoResume, Start
<1> QED
  BY <1>1, <1>2, <1>3, <1>4

LEMMA RecordStep ==
    ASSUME TypeOK, RecordInv, Next
    PROVE  RecordInv'
<1>1. CASE UNCHANGED reviewVars
  BY <1>1 DEF reviewVars, RecordInv
<1>2. CASE Ask
  BY <1>2 DEF Ask, RecordInv, TypeOK
<1>3. CASE FastForward
  BY <1>3 DEF FastForward, RecordInv
<1>4. CASE StartReview
  <2>1. head # Base
    BY <1>4 DEF StartReview, Ahead, InLive
  <2> QED
    BY <1>4, <2>1 DEF StartReview, RecordInv
<1>5. CASE RecordVerdict
  BY <1>5 DEF RecordVerdict, RecordInv, NoSha, Base
<1> QED
  BY <1>1, <1>2, <1>3, <1>4, <1>5, GateLeavesReview, OthersLeaveReview
     DEF Next, Driver, World, Merge, MergeAnswerLost

LEMMA ReviewStep == ReviewInv /\ [Next]_vars => ReviewInv'
<1>1. ASSUME ReviewInv, Next PROVE RecordInv' /\ LandedWasReviewed'
  <2>1. RecordInv'
    BY <1>1, RecordStep DEF ReviewInv
  <2>2. CASE UNCHANGED <<ready, merged>> \/ RecordVerdict
    BY <1>1, <2>1, <2>2 DEF ReviewInv, RecordVerdict, LandedWasReviewed, shipVars
  <2>3. CASE FastForward /\ Mergeable
    <3>1. head \in ready
      BY <1>1, <2>3 DEF Mergeable, ReviewInv, RecordInv
    <3> QED
      BY <1>1, <2>1, <2>3, <3>1 DEF FastForward, ReviewInv, LandedWasReviewed
  <2>4. CASE UNCHANGED reviewVars \/ Ask \/ StartReview
    BY <2>2, <2>4 DEF reviewVars, Ask, StartReview, shipVars
  <2> QED
    BY <1>1, <2>2, <2>3, <2>4, GateLeavesReview, OthersLeaveReview
       DEF Next, Driver, World, Merge, MergeAnswerLost
<1>2. ASSUME ReviewInv, UNCHANGED vars PROVE RecordInv' /\ LandedWasReviewed'
  BY <1>2 DEF vars, ReviewInv, RecordInv, LandedWasReviewed
<1> QED
  BY <1>1, <1>2, StepTyped DEF ReviewInv

\* The merge endpoint (services/agent-review, POST merge) takes a branch and
\* not a commit; whatever the branch does between the verdict and the merge,
\* main only ever moves to a tip the reviewer called READY.
THEOREM MergesAreReviewed == Spec => []LandedWasReviewed
<1>1. Init => ReviewInv
  BY InitTyped DEF Init, ReviewInv, RecordInv, LandedWasReviewed, NoSha, Base
<1>2. ReviewInv => LandedWasReviewed
  BY DEF ReviewInv
<1> QED
  BY <1>1, <1>2, ReviewStep, PTL DEF Spec

-----------------------------------------------------------------------------
(* The gate never routes back into itself *)

\* What keeps a result out of the gate: somebody else has to act on it, or
\* there is no approved commit to ship.
Settled(c) ==
    \/ c.escalated \/ c.paused \/ c.parked # NoSha \/ c.feedback
    \/ c.approved = NoSha \/ c.committed = NoSha

LEMMA FinishRoutes ==
    ASSUME NEW c \in Checkpoints, NEW o, Finish(c, o), Settled(c)
    PROVE  cp'.next # "verify"
<1>1. Route(c) # "verify"
  BY DEF Settled, Route
<1>2. cp'.next = Route(c)
  BY DEF Finish, Checkpoints
<1> QED
  BY <1>1, <1>2

LEMMA DoneRoutes ==
    ASSUME TypeOK, NEW c \in Checkpoints, NEW o, Done(c, o), Settled(c)
    PROVE  cp'.next # "verify"
<1> DEFINE r == IF retry # NoSha THEN retry ELSE c.retried
           d == [c EXCEPT !.edits = NoSha, !.retried = r]
<1>1. r \in MaybeSha
  BY DEF TypeOK, Checkpoints
<1>2. d \in Checkpoints
  BY <1>1, ShaTypes DEF Checkpoints
<1>3. Settled(d)
  BY DEF Settled, Checkpoints
<1>4. Finish(d, o)
  BY DEF Done
<1> HIDE DEF d
<1> QED
  BY <1>2, <1>3, <1>4, FinishRoutes

LEMMA ThrowRoutes == ASSUME TypeOK, Throw PROVE cp'.next # "verify"
<1>1. PICK w \in {"gateInfra", "other"} :
        Finish([Escalate(cp, w) EXCEPT !.edits = NoSha], episode)
  BY DEF Throw
<1> DEFINE d == [Escalate(cp, w) EXCEPT !.edits = NoSha]
<1>2. Escalate(cp, w) \in Checkpoints /\ Escalate(cp, w).escalated
  <2>1. cp \in Checkpoints /\ w \in Whys
    BY BaseFacts
  <2> QED
    BY <2>1, EscalateType DEF Escalate, Checkpoints
<1>3. d \in Checkpoints /\ d.escalated
  BY <1>2, ShaTypes DEF Checkpoints
<1>4. Settled(d)
  BY <1>3 DEF Settled
<1>5. Finish(d, episode)
  BY <1>1
<1> HIDE DEF d
<1> QED
  BY <1>3, <1>4, <1>5, FinishRoutes

\* Each shape of result the gate returns is settled.
LEMMA ResultsSettled ==
    ASSUME NEW c \in Checkpoints, NEW s \in MaybeSha, NEW w \in Whys
    PROVE  /\ Settled(LoopBack(c)) /\ Settled(Escalate(c, w))
           /\ Settled([LoopBack(c) EXCEPT !.committed = s])
           /\ Settled([LoopBack(c) EXCEPT !.approved = NoSha])
           /\ Settled([LoopBack(c) EXCEPT !.parked = NoSha])
           /\ Settled([LoopBack(c) EXCEPT !.nodiff = 1])
           /\ s # NoSha => Settled([c EXCEPT !.parked = s])
           /\ Settled([c EXCEPT !.committed = NoSha, !.parked = NoSha])
           /\ c.committed = NoSha => Settled([c EXCEPT !.nodiff = 0])
<1>1. LoopBack(c) \in Checkpoints /\ LoopBack(c).feedback
  BY LoopBackType DEF LoopBack, Checkpoints
<1>2. Escalate(c, w).escalated
  BY DEF Escalate, Checkpoints
<1>3. \A d \in Checkpoints : d.feedback =>
        /\ [d EXCEPT !.committed = s].feedback
        /\ [d EXCEPT !.approved = NoSha].feedback
        /\ [d EXCEPT !.parked = NoSha].feedback
        /\ [d EXCEPT !.nodiff = 1].feedback
  BY DEF Checkpoints
<1>4. /\ [c EXCEPT !.parked = s].parked = s
      /\ [c EXCEPT !.committed = NoSha, !.parked = NoSha].committed = NoSha
      /\ [c EXCEPT !.nodiff = 0].committed = c.committed
  BY DEF Checkpoints
<1> QED
  BY <1>1, <1>2, <1>3, <1>4 DEF Settled

LEMMA GateRoutes ==
    ASSUME TypeOK, RecordInv, Gate, pc \in Interior, pc' = "next"
    PROVE  cp'.next # "verify"
<1> USE BaseFacts
<1>0. /\ Reviewed \in Checkpoints /\ Passed \in Checkpoints
      /\ Void(Passed) \in Checkpoints
      /\ [cp EXCEPT !.committed = sha] \in Checkpoints
  BY ReviewedType, VoidType, ResultTypes
<1>1. CASE ChecksFail \/ NudgeCoder \/ HoldCommit \/ RebaseConflicts
  <2>1. PICK c \in Checkpoints, o \in Episodes : Done(c, o) /\ Settled(c)
    <3>1. /\ LoopBack(cp) \in Checkpoints /\ Settled(LoopBack(cp))
          /\ Escalate(cp, "other") \in Checkpoints /\ Settled(Escalate(cp, "other"))
      BY ResultsSettled, ResultTypes, LoopBackType
    <3>2. \A s \in MaybeSha : /\ [LoopBack(cp) EXCEPT !.committed = s] \in Checkpoints
                             /\ Settled([LoopBack(cp) EXCEPT !.committed = s])
      BY ResultsSettled, ResultTypes
    <3> QED
      BY <1>1, <3>1, <3>2 DEF ChecksFail, NudgeCoder, HoldCommit, RebaseConflicts
  <2> QED
    BY <2>1, DoneRoutes
<1>2. CASE ConcludeInLive
  <2> DEFINE c == [cp EXCEPT !.committed = NoSha, !.parked = NoSha, !.approved = NoSha,
                            !.seen = Pending, !.verdict = "READY"]
  <2>1. c \in Checkpoints
    BY ShaTypes DEF Checkpoints, Verdicts
  <2>2. Settled(c)
    BY DEF Settled, Checkpoints
  <2>3. Done(c, "shipped")
    BY <1>2 DEF ConcludeInLive
  <2> HIDE DEF c
  <2> QED
    BY <2>1, <2>2, <2>3, DoneRoutes
<1>3. CASE NoDiff
  <2>0. head # NoSha
    BY NIsNat DEF NoSha
  <2>1. cp.committed = NoSha
    BY <1>3, <2>0 DEF NoDiff, NothingToShip, Pending
  <2>2. 0 \in 0..1 /\ 1 \in 0..1
    OBVIOUS
  <2>3. \A d \in Checkpoints : /\ [d EXCEPT !.nodiff = 0] \in Checkpoints
                               /\ [d EXCEPT !.nodiff = 1] \in Checkpoints
    BY <2>2 DEF Checkpoints
  <2>4. PICK c \in Checkpoints, o \in Episodes : Done(c, o) /\ Settled(c)
    BY <1>3, <2>1, <2>3, ResultsSettled, LoopBackType DEF NoDiff
  <2> QED
    BY <2>4, DoneRoutes
<1>4. CASE AskFails \/ ReviewTimesOut \/ CIFails \/ CIStops \/ ShipFails
           \/ DivergedConflicts \/ DeployFails
  <2>1. PICK c \in Checkpoints, o \in Episodes : Done(c, o) /\ Settled(c)
    BY <1>0, <1>4, ResultsSettled, ResultTypes, EscalateType, LoopBackType
       DEF AskFails, ReviewTimesOut, CIFails, CIStops, ShipFails,
           DivergedConflicts, DeployFails
  <2> QED
    BY <2>1, DoneRoutes
<1>5. CASE Rejected \/ Park
  <2>1. Answered => sha # NoSha
    BY DEF Answered, RecordInv
  <2>2. PICK c \in Checkpoints, o \in Episodes : Done(c, o) /\ Settled(c)
    BY <1>0, <1>5, <2>1, ResultsSettled, ResultTypes, EscalateType DEF Rejected, Park
  <2> QED
    BY <2>2, DoneRoutes
<1>6. CASE OpenPullRequest \/ Deploy
  <2>1. PICK c \in Checkpoints, o \in Episodes : Done(c, o) /\ Settled(c)
    BY <1>0, <1>6, ResultsSettled, ResultTypes DEF OpenPullRequest, Deploy
  <2> QED
    BY <2>1, DoneRoutes
<1>7. CASE MergeAnswerLost \/ GateThrows
  BY <1>7, ThrowRoutes DEF MergeAnswerLost, GateThrows
<1>8. ~(\/ GateDeclines \/ GateRefusesEdits \/ GateOpens)
  BY DEF GateDeclines, GateRefusesEdits, GateOpens, AtGate, Interior
<1>9. ~(\/ FastPath \/ AskAgain \/ Commit \/ RebaseCommit \/ Ask \/ PassReview
        \/ CIPasses \/ Merge \/ Diverge \/ RebaseDiverged)
  BY DEF FastPath, AskAgain, Commit, RebaseCommit, Ask, PassReview, CIPasses, Merge,
     Diverge, RebaseDiverged, TurnTo
<1> QED
  BY <1>1, <1>2, <1>3, <1>4, <1>5, <1>6, <1>7, <1>8, <1>9 DEF Gate

\* Only the gate leaves its own interior for the graph's next node.
LEMMA OnlyGateReturns ==
    ASSUME Next, pc \in Interior, pc' = "next"
    PROVE  Gate
<1>1. ~(MarkQueued \/ MarkRunning \/ Work \/ EndRun)
  BY DEF MarkQueued, MarkRunning, EndRun, Work, WorkspaceUnavailable, StartWork,
     AgentEdits, AgentCommits, WorkEnds, AtWork, Interior
<1>2. ~Operator
  BY DEF Operator, ResumeShipping, ResumeWork, Reopen, CarryOn, OpenPanel,
     MergeApprove, RequestChanges, OperatorEdit, CommandDecision, Decide, Start, Interior
<1>3. ~Supervisor
  BY DEF Supervisor, ConcludeLanded, Heal, SweepWorkspace, Parked, Decide, Start,
     Interior
<1>4. ~World
  BY DEF World, StartReview, RecordVerdict, LiveMoves, Crash, Stop, LoseDriver,
     AutoResume, Start, Interior
<1> QED
  BY <1>1, <1>2, <1>3, <1>4 DEF Next, Driver

\* _route_after_verify and the results of the gate together: after a pass the
\* agent, a human or the end is next, so the gate cannot spin on an approval it
\* has already acted on (the wedge of 2026-08-26).
THEOREM GateHandsOver == Spec => GateNeverSelfRoutes
<1>1. Init => ReviewInv
  BY InitTyped DEF Init, ReviewInv, RecordInv, LandedWasReviewed, NoSha, Base
<1>2. ReviewInv /\ [Next]_vars
        => [(pc \in Interior /\ pc' = "next") => (cp'.next # "verify")]_vars
  BY GateRoutes, OnlyGateReturns DEF ReviewInv
<1> QED
  BY <1>1, <1>2, ReviewStep, PTL DEF Spec, GateNeverSelfRoutes

-----------------------------------------------------------------------------
(* Whose approval the gate acts on.                                        *)
(*                                                                         *)
(* Ids are minted in order and a commit keeps its patch, so what an        *)
(* approval was given for stays what it is for; the checkpoint's approval  *)
(* only ever comes from merge_decision; and a gate that ships the tip of   *)
(* the branch carries it through rebases to equal patches only.            *)

-----------------------------------------------------------------------------
(* Commits: minted in order, and never another patch *)

PatchesKept ==
    /\ used <= used' /\ head' <= used'
    /\ \A s \in 0..N : s <= used => patch'[s] = patch[s]

LEMMA SameBranch ==
    ASSUME TypeOK, head <= used, UNCHANGED <<patch, used, head>>
    PROVE  PatchesKept
BY NIsNat DEF PatchesKept, TypeOK

LEMMA OntoBaseKeeps ==
    ASSUME TypeOK, OntoBase, UNCHANGED <<patch, used>>
    PROVE  PatchesKept
BY NIsNat DEF PatchesKept, TypeOK, OntoBase, Base

LEMMA MintKeeps ==
    ASSUME TypeOK, NEW c, NEW p, Mint(c, p)
    PROVE  PatchesKept /\ head' = c /\ patch'[c] = p
<1>1. used \in Nat /\ c = used + 1 /\ used' = c /\ head' = c /\ c \in 0..N
  BY NIsNat DEF Mint, TypeOK
<1>2. \A s \in 0..N : s <= used => s # c
  BY <1>1
<1>3. patch' = [patch EXCEPT ![c] = p] /\ patch \in [0..N -> 0..N]
  BY DEF Mint, TypeOK
<1> QED
  BY <1>1, <1>2, <1>3 DEF PatchesKept

LEMMA RebaseKeeps ==
    ASSUME TypeOK, NEW c, NEW p, Rebase(c, p)
    PROVE  PatchesKept /\ head' = c /\ (c = Base \/ patch'[c] = p)
<1>1. CASE Ahead
  BY <1>1, MintKeeps DEF Rebase
<1>2. CASE ~Ahead
  BY <1>2, NIsNat DEF Rebase, PatchesKept, TypeOK, Base
<1> QED
  BY <1>1, <1>2

\* Where the gate's locals come from.
LocalsMove ==
    /\ sha' \in {sha, NoSha, head', cp.approved}
    /\ appr' \in {appr, NoSha, head', cp.approved}

LEMMA EndMoves ==
    ASSUME NEW c, NEW o, Finish(c, o) \/ Done(c, o)
    PROVE  LocalsMove /\ appr' = NoSha /\ sha' = NoSha /\ ~offTip' /\ pc' = "next"
BY DEF Finish, Done, LocalsMove

LEMMA ThrowMoves ==
    ASSUME Throw
    PROVE  LocalsMove /\ appr' = NoSha /\ sha' = NoSha /\ ~offTip' /\ pc' = "next"
BY EndMoves DEF Throw

\* The actions of the gate that end its pass, all with the same effect on the
\* branch (none) and on the locals (gone).
Ends == \/ GateDeclines \/ GateRefusesEdits \/ ChecksFail \/ ConcludeInLive
        \/ NudgeCoder \/ NoDiff \/ HoldCommit \/ RebaseConflicts \/ AskFails
        \/ ReviewTimesOut \/ Rejected \/ Park \/ CIFails \/ CIStops
        \/ MergeAnswerLost \/ ShipFails \/ OpenPullRequest \/ DivergedConflicts
        \/ Deploy \/ DeployFails \/ GateThrows

LEMMA EndsMove ==
    ASSUME Ends
    PROVE  /\ LocalsMove /\ appr' = NoSha /\ sha' = NoSha /\ ~offTip' /\ pc' = "next"
           /\ UNCHANGED <<patch, used, head, blessed>>
<1>1. CASE \/ GateDeclines \/ GateRefusesEdits \/ ChecksFail \/ ConcludeInLive
           \/ NudgeCoder \/ NoDiff \/ HoldCommit \/ RebaseConflicts
  BY <1>1, EndMoves DEF GateDeclines, GateRefusesEdits, ChecksFail, ConcludeInLive,
     NudgeCoder, NoDiff, HoldCommit, RebaseConflicts, gitVars
<1>2. CASE \/ AskFails \/ ReviewTimesOut \/ Rejected \/ Park \/ CIFails \/ CIStops
  BY <1>2, EndMoves DEF AskFails, ReviewTimesOut, Rejected, Park, CIFails, CIStops,
     gitVars
<1>3. CASE \/ ShipFails \/ OpenPullRequest \/ DivergedConflicts \/ Deploy \/ DeployFails
  BY <1>3, EndMoves DEF ShipFails, OpenPullRequest, DivergedConflicts, Deploy,
     DeployFails, gitVars
<1>4. CASE MergeAnswerLost \/ GateThrows
  BY <1>4, ThrowMoves DEF MergeAnswerLost, GateThrows, FastForward, gitVars
<1> QED
  BY <1>1, <1>2, <1>3, <1>4 DEF Ends

LEMMA GateMoves ==
    ASSUME TypeOK, head <= used, Gate
    PROVE  PatchesKept /\ LocalsMove /\ UNCHANGED blessed
<1>1. CASE Ends
  BY <1>1, EndsMove, SameBranch
<1>2. CASE GateOpens \/ FastPath \/ AskAgain
  <2>1. UNCHANGED <<patch, used, head, blessed>> /\ LocalsMove
    BY <1>2, BaseFacts DEF GateOpens, FastPath, AskAgain, TurnTo, gitVars, LocalsMove,
       Outstanding, Pending
  <2> QED
    BY <2>1, SameBranch
<1>3. CASE Ask \/ PassReview \/ CIPasses \/ Diverge \/ Merge
  <2>1. UNCHANGED <<patch, used, head, blessed>> /\ LocalsMove
    BY <1>3 DEF Ask, PassReview, CIPasses, Diverge, Merge, FastForward, gitVars,
       localVars, LocalsMove
  <2> QED
    BY <2>1, SameBranch
<1>4. CASE Commit
  BY <1>4, MintKeeps DEF Commit, LocalsMove, localVars
<1>5. CASE RebaseCommit
  <2>1. UNCHANGED <<appr, blessed>>
    BY <1>5 DEF RebaseCommit
  <2>2. CASE TurnTo(head) /\ UNCHANGED <<patch, used, head, own, insync>>
    BY <2>1, <2>2, SameBranch DEF TurnTo, LocalsMove
  <2>3. CASE \E c, p \in 0..N : Rebase(c, p) /\ TurnTo(c)
    BY <2>1, <2>3, RebaseKeeps DEF TurnTo, LocalsMove
  <2> QED
    BY <1>5, <2>2, <2>3 DEF RebaseCommit
<1>6. CASE RebaseDiverged
  BY <1>6, RebaseKeeps DEF RebaseDiverged, TurnTo, LocalsMove
<1> QED
  BY <1>1, <1>2, <1>3, <1>4, <1>5, <1>6 DEF Gate, Ends

LEMMA WorkMoves ==
    ASSUME TypeOK, head <= used, Work
    PROVE  PatchesKept /\ LocalsMove /\ UNCHANGED <<blessed, appr, sha, offTip>>
<1>1. LocalsMove /\ UNCHANGED <<blessed, appr, sha, offTip>>
  BY DEF Work, WorkspaceUnavailable, StartWork, AgentEdits, AgentCommits, WorkEnds,
     LocalsMove, localVars
<1>2. PatchesKept
  <2>1. CASE WorkspaceUnavailable \/ AgentEdits \/ WorkEnds
    BY <2>1, SameBranch DEF WorkspaceUnavailable, AgentEdits, WorkEnds, gitVars
  <2>2. CASE StartWork
    <3>1. CASE UNCHANGED gitVars
      BY <3>1, SameBranch DEF gitVars
    <3>2. CASE \E c, p \in 0..N : Rebase(c, p)
      BY <3>2, RebaseKeeps
    <3>3. CASE OntoBase /\ UNCHANGED <<patch, used>>
      BY <3>3, OntoBaseKeeps
    <3> QED
      BY <2>2, <3>1, <3>2, <3>3 DEF StartWork, RestoreTaskWorkspace
  <2>3. CASE AgentCommits
    BY <2>3, MintKeeps DEF AgentCommits
  <2> QED
    BY <2>1, <2>2, <2>3 DEF Work
<1> QED
  BY <1>1, <1>2

\* Everybody else leaves the branch alone, and the gate's locals too unless the
\* driver is lost; what was approved is taken back only of a resting task.
LEMMA OthersMove ==
    ASSUME TypeOK, head <= used,
           MarkQueued \/ MarkRunning \/ EndRun \/ Operator \/ Supervisor \/ World
    PROVE  /\ PatchesKept /\ LocalsMove /\ (blessed \subseteq blessed' \/ pc = "off")
           /\ UNCHANGED <<patch, used, head>>
           /\ \/ UNCHANGED <<sha, appr, offTip>>
              \/ sha' = NoSha /\ appr' = NoSha /\ ~offTip' /\ pc' = "off"
<1>1. /\ LocalsMove /\ (blessed \subseteq blessed' \/ pc = "off")
      /\ UNCHANGED <<patch, used, head>>
      /\ \/ UNCHANGED <<sha, appr, offTip>>
         \/ sha' = NoSha /\ appr' = NoSha /\ ~offTip' /\ pc' = "off"
  <2>1. CASE MarkQueued \/ MarkRunning \/ EndRun
    BY <2>1 DEF MarkQueued, MarkRunning, EndRun, gitVars, localVars, LocalsMove
  <2>2. CASE Operator
    BY <2>2 DEF Operator, ResumeShipping, ResumeWork, Reopen, CarryOn, OpenPanel,
       MergeApprove, RequestChanges, OperatorEdit, CommandDecision, Decide, Start,
       gitVars, localVars, LocalsMove
  <2>3. CASE Supervisor
    BY <2>3 DEF Supervisor, ConcludeLanded, Heal, SweepWorkspace, Decide, Start,
       gitVars, localVars, LocalsMove
  <2>4. CASE World
    BY <2>4 DEF World, StartReview, RecordVerdict, LiveMoves, Crash, Stop, LoseDriver,
       AutoResume, Start, gitVars, localVars, LocalsMove
  <2> QED
    BY <2>1, <2>2, <2>3, <2>4
<1> QED
  BY <1>1, SameBranch

-----------------------------------------------------------------------------
(* Where the checkpoint's approved and parked commits come from *)

Kept(c) == /\ c \in Checkpoints /\ c.approved \in {cp.approved, NoSha}
           /\ c.parked \in {cp.parked, NoSha}

LEMMA CpKept == ASSUME TypeOK PROVE Kept(cp)
BY BaseFacts DEF Kept

\* No result, patch or grant makes an approval or parks another commit.
LEMMA EditsKeep ==
    ASSUME TypeOK, NEW c, Kept(c), NEW s \in MaybeSha, NEW w \in Whys
    PROVE  /\ Kept(LoopBack(c)) /\ Kept(Escalate(c, w)) /\ Kept(Void(c))
           /\ Kept(Healthy(c)) /\ Kept(Fresh(c)) /\ Kept([c EXCEPT !.left = @ + Grant])
           /\ Kept([c EXCEPT !.committed = s]) /\ Kept([c EXCEPT !.edits = s])
           /\ Kept([c EXCEPT !.parked = NoSha])
           /\ Kept([c EXCEPT !.approved = NoSha]) /\ Kept([c EXCEPT !.feedback = TRUE])
<1>1. c \in Checkpoints
  BY DEF Kept
<1>2. /\ LoopBack(c) \in Checkpoints /\ Escalate(c, w) \in Checkpoints
      /\ Void(c) \in Checkpoints /\ Healthy(c) \in Checkpoints
      /\ Fresh(c) \in Checkpoints /\ [c EXCEPT !.left = @ + Grant] \in Checkpoints
  BY <1>1, LoopBackType, EscalateType, VoidType, HealthyType, FreshType, GrantType
<1>3. /\ [c EXCEPT !.committed = s] \in Checkpoints
      /\ [c EXCEPT !.edits = s] \in Checkpoints
      /\ [c EXCEPT !.parked = NoSha] \in Checkpoints
      /\ [c EXCEPT !.approved = NoSha] \in Checkpoints
      /\ [c EXCEPT !.feedback = TRUE] \in Checkpoints
  BY <1>1, ShaTypes DEF Checkpoints
<1>4. /\ LoopBack(c).approved = c.approved /\ LoopBack(c).parked = c.parked
      /\ Escalate(c, w).approved = c.approved /\ Escalate(c, w).parked = c.parked
      /\ Void(c).approved = NoSha /\ Void(c).parked = c.parked
      /\ Healthy(c).approved = c.approved /\ Healthy(c).parked = c.parked
      /\ Fresh(c).approved = c.approved /\ Fresh(c).parked = c.parked
  BY <1>1 DEF LoopBack, Escalate, Void, Healthy, Fresh, Checkpoints
<1>5. \A l : /\ [c EXCEPT !.left = l].approved = c.approved
             /\ [c EXCEPT !.left = l].parked = c.parked
  BY <1>1 DEF Checkpoints
<1>6. /\ [c EXCEPT !.committed = s].approved = c.approved
      /\ [c EXCEPT !.committed = s].parked = c.parked
      /\ [c EXCEPT !.edits = s].approved = c.approved
      /\ [c EXCEPT !.edits = s].parked = c.parked
      /\ [c EXCEPT !.parked = NoSha].approved = c.approved
      /\ [c EXCEPT !.parked = NoSha].parked = NoSha
      /\ [c EXCEPT !.approved = NoSha].approved = NoSha
      /\ [c EXCEPT !.approved = NoSha].parked = c.parked
      /\ [c EXCEPT !.feedback = TRUE].approved = c.approved
      /\ [c EXCEPT !.feedback = TRUE].parked = c.parked
  BY <1>1 DEF Checkpoints
<1> QED
  BY <1>2, <1>3, <1>4, <1>5, <1>6 DEF Kept

LEMMA SentBackKeeps ==
    ASSUME TypeOK, NEW c, Kept(c)
    PROVE  Kept(SentBack(c)) /\ SentBack(c).approved = NoSha
<1>1. NoSha \in MaybeSha /\ "other" \in Whys
  BY ShaTypes, BaseFacts
<1>2. Kept(Fresh(c))
  BY <1>1, EditsKeep
<1>3. Kept(Void(Fresh(c)))
  BY <1>1, <1>2, EditsKeep
<1>4. Kept(SentBack(c))
  BY <1>1, <1>3, EditsKeep DEF SentBack
<1>5. Void(Fresh(c)).approved = NoSha
  BY <1>2 DEF Void, Kept, Checkpoints
<1> QED
  BY <1>3, <1>4, <1>5 DEF SentBack, Kept, Checkpoints

LEMMA FinishKeeps ==
    ASSUME TypeOK, NEW c, Kept(c), NEW o, Finish(c, o)
    PROVE  Kept(cp')
<1>1. cp' = [c EXCEPT !.next = Route(c)] /\ c \in Checkpoints
  BY DEF Finish, Kept
<1>2. cp' \in Checkpoints
  BY <1>1, RouteType, NextType
<1>3. cp'.approved = c.approved /\ cp'.parked = c.parked
  BY <1>1 DEF Checkpoints
<1> QED
  BY <1>2, <1>3 DEF Kept

LEMMA DoneKeeps ==
    ASSUME TypeOK, NEW c, Kept(c), NEW o, Done(c, o)
    PROVE  Kept(cp')
<1> DEFINE r == IF retry # NoSha THEN retry ELSE c.retried
           d == [c EXCEPT !.edits = NoSha, !.retried = r]
<1>1. c \in Checkpoints /\ r \in MaybeSha
  BY DEF TypeOK, Checkpoints, Kept
<1>2. d \in Checkpoints /\ d.approved = c.approved /\ d.parked = c.parked
  BY <1>1, ShaTypes DEF Checkpoints
<1>3. Kept(d) /\ Finish(d, o)
  BY <1>2 DEF Kept, Done
<1> HIDE DEF d
<1> QED
  BY <1>3, FinishKeeps

LEMMA ThrowKeeps == ASSUME TypeOK, Throw PROVE Kept(cp')
<1>1. PICK w \in {"gateInfra", "other"} :
        Finish([Escalate(cp, w) EXCEPT !.edits = NoSha], episode)
  BY DEF Throw
<1>2. Kept(Escalate(cp, w)) /\ NoSha \in MaybeSha
  BY CpKept, EditsKeep, BaseFacts, ShaTypes
<1>3. Kept([Escalate(cp, w) EXCEPT !.edits = NoSha])
  BY <1>2, EditsKeep, BaseFacts
<1> QED
  BY <1>1, <1>3, FinishKeeps

LEMMA GateKeeps ==
    ASSUME TypeOK, Gate, ~Park
    PROVE  Kept(cp')
<1> USE BaseFacts
<1>0. Kept(cp) /\ NoSha \in MaybeSha /\ "other" \in Whys
  BY CpKept, ShaTypes
<1>1. /\ Kept(LoopBack(cp)) /\ Kept(Void(cp)) /\ \A w \in Whys : Kept(Escalate(cp, w))
      /\ \A s \in MaybeSha : Kept([cp EXCEPT !.committed = s])
  BY <1>0, EditsKeep
<1>2. Kept(Reviewed) /\ Kept(Passed)
  <2>1. \A v : /\ [cp EXCEPT !.committed = sha, !.seen = sha, !.verdict = v].approved
                    = cp.approved
               /\ [cp EXCEPT !.committed = sha, !.seen = sha, !.verdict = v].parked
                    = cp.parked
    BY DEF Checkpoints
  <2> QED
    BY <2>1, ReviewedType DEF Kept, Reviewed, Passed
<1>3. CASE GateDeclines \/ ConcludeInLive
  <2>1. /\ [cp EXCEPT !.committed = NoSha, !.parked = NoSha, !.approved = NoSha]
              \in Checkpoints
        /\ [cp EXCEPT !.committed = NoSha, !.parked = NoSha, !.approved = NoSha,
                      !.seen = Pending, !.verdict = "READY"] \in Checkpoints
    BY ShaTypes DEF Checkpoints, Verdicts
  <2>2. /\ Kept([cp EXCEPT !.committed = NoSha, !.parked = NoSha, !.approved = NoSha])
        /\ Kept([cp EXCEPT !.committed = NoSha, !.parked = NoSha, !.approved = NoSha,
                          !.seen = Pending, !.verdict = "READY"])
    BY <2>1 DEF Kept, Checkpoints
  <2> QED
    BY <1>0, <1>1, <1>3, <2>2, FinishKeeps, DoneKeeps DEF GateDeclines, ConcludeInLive
<1>4. CASE GateRefusesEdits
  <2>1. Kept([Escalate(cp, "other") EXCEPT !.edits = NoSha])
    BY <1>0, <1>1, EditsKeep
  <2> QED
    BY <1>4, <2>1, FinishKeeps DEF GateRefusesEdits
<1>5. CASE ChecksFail \/ NudgeCoder \/ HoldCommit \/ RebaseConflicts
  <2>1. \A s \in MaybeSha : Kept([LoopBack(cp) EXCEPT !.committed = s])
    BY <1>0, <1>1, EditsKeep
  <2> QED
    BY <1>0, <1>1, <1>5, <2>1, DoneKeeps
       DEF ChecksFail, NudgeCoder, HoldCommit, RebaseConflicts
<1>6. CASE NoDiff
  <2>1. 0 \in 0..1 /\ 1 \in 0..1
    OBVIOUS
  <2>2. \A c : Kept(c) => Kept([c EXCEPT !.nodiff = 0]) /\ Kept([c EXCEPT !.nodiff = 1])
    BY <2>1 DEF Kept, Checkpoints
  <2> QED
    BY <1>0, <1>1, <1>6, <2>2, DoneKeeps DEF NoDiff
<1>7. CASE AskFails \/ ReviewTimesOut
  <2>1. \A w \in Whys : Kept(Escalate([cp EXCEPT !.committed = sha], w))
    BY <1>0, <1>1, EditsKeep
  <2> QED
    BY <1>7, <2>1, DoneKeeps DEF AskFails, ReviewTimesOut
<1>8. CASE Rejected
  <2>1. Kept(LoopBack(Reviewed))
    BY <1>0, <1>2, EditsKeep
  <2>2. /\ Kept([LoopBack(Reviewed) EXCEPT !.approved = NoSha])
        /\ Kept(Escalate(Reviewed, "other"))
    BY <1>0, <1>2, <2>1, EditsKeep
  <2> QED
    BY <1>8, <2>2, DoneKeeps DEF Rejected
<1>9. CASE CIFails \/ CIStops \/ ShipFails \/ DivergedConflicts \/ DeployFails
  <2>1. Kept(Void(Passed)) /\ \A w \in Whys : Kept(Escalate(Passed, w))
    BY <1>0, <1>2, EditsKeep
  <2>2. Kept(LoopBack(Void(Passed))) /\ \A w \in Whys : Kept(Escalate(Void(Passed), w))
    BY <1>0, <2>1, EditsKeep
  <2>3. Kept([LoopBack(Void(Passed)) EXCEPT !.parked = NoSha])
    BY <1>0, <2>2, EditsKeep
  <2> QED
    BY <1>9, <2>1, <2>2, <2>3, DoneKeeps
       DEF CIFails, CIStops, ShipFails, DivergedConflicts, DeployFails
<1>10. CASE OpenPullRequest \/ Deploy
  <2>1. Kept(Void(Passed))
    BY <1>0, <1>2, EditsKeep
  <2>2. Kept([Void(Passed) EXCEPT !.committed = NoSha, !.parked = NoSha])
    BY <2>1, ShaTypes DEF Kept, Checkpoints
  <2> QED
    BY <1>10, <2>2, DoneKeeps DEF OpenPullRequest, Deploy
<1>11. CASE MergeAnswerLost \/ GateThrows
  BY <1>11, ThrowKeeps DEF MergeAnswerLost, GateThrows
<1>12. CASE \/ GateOpens \/ FastPath \/ AskAgain \/ Commit \/ RebaseCommit \/ Ask
            \/ PassReview \/ CIPasses \/ Merge \/ Diverge \/ RebaseDiverged
  BY <1>0, <1>12 DEF GateOpens, FastPath, AskAgain, Commit, RebaseCommit, Ask,
     PassReview, CIPasses, Merge, Diverge, RebaseDiverged
<1> QED
  BY <1>3, <1>4, <1>5, <1>6, <1>7, <1>8, <1>9, <1>10, <1>11, <1>12 DEF Gate

\* What the gate leaves when it hands over to the operator.
Parks(c) == /\ c.parked = sha /\ c.committed = sha /\ c.approved = cp.approved
            /\ c.escalated = cp.escalated /\ c.paused = cp.paused
            /\ c.seen = sha /\ c.verdict = rec.verdict
            /\ sha # NoSha => c.next = "end"

LEMMA ParkParks ==
    ASSUME TypeOK, Park
    PROVE  Parks(cp')
<1> DEFINE r == IF retry # NoSha THEN retry ELSE cp.retried
           d == [cp EXCEPT !.committed = sha, !.seen = sha, !.verdict = rec.verdict,
                          !.parked = sha, !.edits = NoSha, !.retried = r]
<1>1. cp \in Checkpoints
  BY BaseFacts
<1>2. cp' = [d EXCEPT !.next = Route(d)]
  BY <1>1 DEF Park, Done, Finish, Reviewed, Checkpoints
<1>3. /\ d.parked = sha /\ d.committed = sha /\ d.approved = cp.approved
      /\ d.escalated = cp.escalated /\ d.paused = cp.paused
      /\ d.seen = sha /\ d.verdict = rec.verdict
      /\ DOMAIN d = DOMAIN cp
  BY <1>1 DEF Checkpoints
<1>4. sha # NoSha => Route(d) = "end"
  BY <1>1, <1>3 DEF Route
<1> HIDE DEF d
<1> QED
  BY <1>1, <1>2, <1>3, <1>4 DEF Parks, Checkpoints

LEMMA StartKeeps ==
    ASSUME TypeOK, NEW c, Kept(c), NEW n \in {"work", "verify", "end"},
           Start(c, n) \/ Decide(c, n)
    PROVE  Kept(cp')
<1>1. cp' = [c EXCEPT !.next = n] /\ c \in Checkpoints
  BY DEF Start, Decide, Kept
<1>2. cp'.approved = c.approved /\ cp'.parked = c.parked
  BY <1>1 DEF Checkpoints
<1> QED
  BY <1>1, <1>2, NextType DEF Kept

LEMMA WorkKeeps == ASSUME TypeOK, Work PROVE Kept(cp')
<1>1. Kept(cp) /\ cp \in Checkpoints
  BY CpKept, BaseFacts
<1>2. CASE WorkspaceUnavailable
  <2>1. Kept(Escalate(cp, "other"))
    BY <1>1, EditsKeep, BaseFacts
  <2>2. \A c : Kept(c) => Kept([c EXCEPT !.next = "verify"])
    BY DEF Kept, Checkpoints
  <2> QED
    BY <1>2, <2>1, <2>2 DEF WorkspaceUnavailable
<1>3. CASE WorkEnds
  <2>1. cp' \in Checkpoints
    BY <1>3, WorkTyped DEF Work, TypeOK
  <2>2. cp'.approved = cp.approved /\ cp'.parked = cp.parked
    BY <1>1, <1>3 DEF WorkEnds, Checkpoints
  <2> QED
    BY <2>1, <2>2 DEF Kept
<1>4. CASE StartWork \/ AgentEdits \/ AgentCommits
  BY <1>1, <1>4 DEF StartWork, AgentEdits, AgentCommits
<1> QED
  BY <1>2, <1>3, <1>4 DEF Work

LEMMA OperatorKeeps ==
    ASSUME TypeOK, Operator
    PROVE  \/ Kept(cp')
           \/ MergeApprove /\ cp'.approved = cp.parked /\ cp'.parked = NoSha
<1> USE BaseFacts
<1>0. /\ Kept(cp) /\ NoSha \in MaybeSha /\ cp.parked \in MaybeSha
      /\ cp.next \in {"work", "verify", "end"}
  BY CpKept, ShaTypes DEF Checkpoints
<1>1. Kept(Granted) /\ Kept(Fresh(cp))
  BY <1>0, EditsKeep DEF Granted
<1>2. Kept(Healthy(Granted)) /\ Kept(Void(Fresh(cp)))
  BY <1>0, <1>1, EditsKeep
<1>5. Kept(SentBack(Healthy(Granted))) /\ Kept(SentBack(Granted)) /\ Kept(SentBack(cp))
  BY <1>0, <1>1, <1>2, SentBackKeeps
<1>6. CASE ResumeShipping \/ (\E m \in BOOLEAN : ResumeWork(m)) \/ Reopen \/ CarryOn
  <2>1. CASE ResumeShipping
    BY <1>0, <1>1, <1>2, <1>5, <2>1, RouteType, StartKeeps DEF ResumeShipping
  <2>2. CASE \E m \in BOOLEAN : ResumeWork(m)
    BY <1>0, <1>1, <1>2, <1>5, <2>2, RouteType, StartKeeps DEF ResumeWork
  <2>3. CASE Reopen
    BY <1>0, <1>1, <1>2, <1>5, <2>3, RouteType, StartKeeps DEF Reopen
  <2>4. CASE CarryOn
    BY <1>0, <1>1, <1>2, <1>5, <2>4, RouteType, StartKeeps DEF CarryOn
  <2> QED
    BY <1>6, <2>1, <2>2, <2>3, <2>4
<1>7. CASE RequestChanges \/ OperatorEdit \/ CommandDecision
  <2>1. \A c : Kept(c) =>
          /\ Kept([c EXCEPT !.parked = NoSha])
          /\ Kept([c EXCEPT !.edits = cp.parked, !.parked = NoSha])
          /\ Kept([c EXCEPT !.paused = FALSE, !.decision = TRUE, !.feedback = TRUE])
    <3>1. \A c : Kept(c) => Kept([c EXCEPT !.parked = NoSha])
      BY <1>0 DEF Kept, Checkpoints
    <3>2. \A c : Kept(c) => Kept([c EXCEPT !.edits = cp.parked, !.parked = NoSha])
      BY <1>0 DEF Kept, Checkpoints
    <3>3. \A c : Kept(c) => Kept([c EXCEPT !.paused = FALSE, !.decision = TRUE,
                                          !.feedback = TRUE])
      BY <1>0 DEF Kept, Checkpoints
    <3> QED
      BY <3>1, <3>2, <3>3
  <2> QED
    <3>1. CASE RequestChanges
      BY <1>0, <1>5, <2>1, <3>1, RouteType, StartKeeps DEF RequestChanges
    <3>2. CASE OperatorEdit
      BY <1>0, <1>2, <2>1, <3>2, RouteType, StartKeeps DEF OperatorEdit
    <3>3. CASE CommandDecision
      BY <1>0, <1>2, <2>1, <3>3, RouteType, StartKeeps DEF CommandDecision
    <3> QED
      BY <1>7, <3>1, <3>2, <3>3
<1>8. CASE MergeApprove
  <2>1. PICK n : cp' = [[cp EXCEPT !.approved = cp.parked, !.parked = NoSha]
                          EXCEPT !.next = n]
    BY <1>8 DEF MergeApprove, Decide, Start
  <2> QED
    BY <1>8, <2>1 DEF Checkpoints
<1>9. CASE OpenPanel
  BY <1>0, <1>9 DEF OpenPanel
<1> QED
  BY <1>6, <1>7, <1>8, <1>9 DEF Operator

LEMMA SupervisorKeeps == ASSUME TypeOK, Supervisor PROVE Kept(cp')
<1> USE BaseFacts
<1>0. Kept(cp) /\ NoSha \in MaybeSha
  BY CpKept, ShaTypes
<1>1. Kept(Healthy(cp))
  BY <1>0, EditsKeep
<1>2. Kept(Fresh(Healthy(cp))) /\ Kept(Void(Healthy(cp)))
  BY <1>0, <1>1, EditsKeep
<1>4. Kept(SentBack(Healthy(cp)))
  BY <1>1, SentBackKeeps
<1>5. CASE ConcludeLanded
  <2>1. PICK n \in {"work", "verify", "end"} :
          cp' = [Void(Healthy(cp)) EXCEPT !.parked = NoSha, !.feedback = FALSE,
                                         !.next = n]
    BY <1>5, RouteType DEF ConcludeLanded
  <2>2. \A c : Kept(c) =>
          Kept([c EXCEPT !.parked = NoSha, !.feedback = FALSE, !.next = n])
    BY <1>0 DEF Kept, Checkpoints
  <2> QED
    BY <1>2, <2>1, <2>2
<1>6. CASE Heal
  BY <1>2, <1>4, <1>6, RouteType, StartKeeps DEF Heal
<1>7. CASE SweepWorkspace
  BY <1>0, <1>7 DEF SweepWorkspace
<1> QED
  BY <1>5, <1>6, <1>7 DEF Supervisor

-----------------------------------------------------------------------------
(* The approval in the checkpoint *)

\* What was approved is taken back by those who send the task back to work, and
\* they leave no approval in the checkpoint.
LEMMA WithdrawVoids ==
    ASSUME TypeOK, head <= used, Next, ~(blessed \subseteq blessed')
    PROVE  cp'.approved = NoSha
<1> USE BaseFacts
<1>0. Kept(cp) /\ "other" \in Whys /\ NoSha \in MaybeSha
  BY CpKept, ShaTypes
<1>1. Kept(Granted) /\ Kept(Healthy(cp)) /\ Kept(Fresh(cp))
  BY <1>0, EditsKeep DEF Granted
<1>2. Kept(Healthy(Granted))
  BY <1>0, <1>1, EditsKeep
<1>3. \A c \in {SentBack(Healthy(Granted)), SentBack(Granted), SentBack(cp),
               SentBack(Healthy(cp))} : c \in Checkpoints /\ c.approved = NoSha
  BY <1>0, <1>1, <1>2, SentBackKeeps DEF Kept
<1>4. CASE \/ (\E m \in BOOLEAN : ResumeWork(m)) \/ Reopen \/ RequestChanges \/ Heal
  <2>1. PICK c, n : c \in Checkpoints /\ c.approved = NoSha
                     /\ cp' = [c EXCEPT !.next = n]
    <3>1. CASE (\E m \in BOOLEAN : ResumeWork(m)) \/ Reopen
      BY <1>3, <3>1 DEF ResumeWork, Reopen, Decide, Start
    <3>2. CASE RequestChanges
      <4>1. \A c \in Checkpoints : c.approved = NoSha =>
              /\ [c EXCEPT !.parked = NoSha] \in Checkpoints
              /\ [c EXCEPT !.parked = NoSha].approved = NoSha
        BY <1>0 DEF Checkpoints
      <4> QED
        BY <1>3, <3>2, <4>1 DEF RequestChanges, Decide, Start
    <3>3. CASE Heal
      BY <1>3, <3>3 DEF Heal, Decide, Start
    <3> QED
      BY <1>4, <3>1, <3>2, <3>3
  <2> QED
    BY <2>1 DEF Checkpoints
<1>5. CASE OperatorEdit
  <2>1. Void(Fresh(cp)) \in Checkpoints /\ Void(Fresh(cp)).approved = NoSha
    BY <1>1, VoidType DEF Kept, Void, Checkpoints
  <2> QED
    BY <1>5, <2>1 DEF OperatorEdit, Decide, Start, Checkpoints
<1>6. ~(Gate \/ Work)
  BY GateMoves, WorkMoves
<1>7. ~(MarkQueued \/ MarkRunning \/ EndRun \/ World)
  BY DEF MarkQueued, MarkRunning, EndRun, World, StartReview, RecordVerdict, LiveMoves,
     Crash, Stop, LoseDriver, AutoResume, Start
<1>8. ~(ResumeShipping \/ CarryOn \/ OpenPanel \/ MergeApprove \/ CommandDecision
        \/ ConcludeLanded \/ SweepWorkspace)
  BY DEF ResumeShipping, CarryOn, OpenPanel, MergeApprove, CommandDecision,
     ConcludeLanded, SweepWorkspace
<1> QED
  BY <1>4, <1>5, <1>6, <1>7, <1>8 DEF Next, Driver, Operator, Supervisor

LEMMA Moves ==
    ASSUME TypeOK, head <= used, Next
    PROVE  /\ PatchesKept /\ LocalsMove
           /\ blessed \subseteq blessed' \/ cp'.approved = NoSha
BY GateMoves, WorkMoves, OthersMove, WithdrawVoids DEF Next, Driver

LEMMA CheckpointMoves ==
    ASSUME TypeOK, Next
    PROVE  \/ Kept(cp')
           \/ Park /\ Parks(cp')
           \/ MergeApprove /\ cp'.approved = cp.parked /\ cp'.parked = NoSha
<1>1. CASE MarkQueued \/ MarkRunning \/ EndRun
  BY <1>1, CpKept DEF MarkQueued, MarkRunning, EndRun
<1>2. CASE World
  <2>1. CASE AutoResume
    <3>1. Kept([cp EXCEPT !.left = @ + Grant])
      BY CpKept, EditsKeep, BaseFacts
    <3>2. cp.next \in {"work", "verify", "end"}
      BY BaseFacts DEF Checkpoints
    <3> QED
      BY <2>1, <3>1, <3>2, StartKeeps DEF AutoResume
  <2>2. CASE StartReview \/ RecordVerdict \/ LiveMoves \/ Crash \/ Stop
    BY <2>2, CpKept DEF StartReview, RecordVerdict, LiveMoves, Crash, Stop, LoseDriver
  <2> QED
    BY <1>2, <2>1, <2>2 DEF World
<1> QED
  BY <1>1, <1>2, WorkKeeps, GateKeeps, ParkParks, OperatorKeeps, SupervisorKeeps
     DEF Next, Driver

LEMMA MintedStep ==
    ASSUME TypeOK, MintedInv, Next
    PROVE  MintedInv'
<1>1. /\ used \in Int /\ used' \in Int /\ head' \in Int /\ sha \in Int /\ appr \in Int
      /\ cp.parked \in Int /\ cp.approved \in Int
  <2>1. TypeOK'
    BY StepTyped
  <2> QED
    BY <2>1, NIsNat DEF TypeOK, MaybeSha, Checkpoints
<1>2. used <= used' /\ head' <= used' /\ NoSha <= used'
  <2>1. PatchesKept
    BY Moves DEF MintedInv
  <2>2. 0 <= used /\ NoSha = -1
    BY NIsNat DEF TypeOK, NoSha
  <2> QED
    BY <1>1, <2>1, <2>2 DEF PatchesKept
<1>3. sha' <= used' /\ appr' <= used'
  BY <1>1, <1>2, Moves DEF MintedInv, LocalsMove
<1>4. cp'.parked \in {cp.parked, NoSha, sha}
      /\ cp'.approved \in {cp.approved, NoSha, cp.parked}
  BY CheckpointMoves DEF Kept, Parks
<1>5. cp'.parked <= used' /\ cp'.approved <= used'
  BY <1>1, <1>2, <1>4 DEF MintedInv
<1> QED
  BY <1>2, <1>3, <1>5 DEF MintedInv

LEMMA ApprovalStep ==
    ASSUME TypeOK, MintedInv, ApprovalStands, Next
    PROVE  ApprovalStands'
<1> SUFFICES ASSUME cp'.approved # NoSha
             PROVE  patch'[cp'.approved] \in blessed'
  BY DEF ApprovalStands
<1>1. CASE Kept(cp') \/ (Park /\ Parks(cp'))
  <2>1. cp'.approved = cp.approved /\ patch[cp.approved] \in blessed
    BY <1>1 DEF Kept, Parks, ApprovalStands
  <2>2. cp.approved \in 0..N /\ cp.approved <= used
    BY <2>1, ShaTypes, BaseFacts DEF Checkpoints, MintedInv
  <2> QED
    BY <2>1, <2>2, Moves DEF MintedInv, PatchesKept
<1>2. CASE MergeApprove /\ cp'.approved = cp.parked
  <2>1. patch' = patch /\ panel = cp.parked
    BY <1>2 DEF MergeApprove, ShownIsParked, Decide, Start, gitVars
  <2> QED
    BY <1>2, <2>1 DEF MergeApprove
<1> QED
  BY <1>1, <1>2, CheckpointMoves

LEMMA ApprovalInvStep == ApprovalInv /\ [Next]_vars => ApprovalInv'
<1>1. ASSUME ApprovalInv, Next PROVE ApprovalInv'
  BY <1>1, StepTyped, MintedStep, ApprovalStep DEF ApprovalInv
<1>2. ASSUME ApprovalInv, UNCHANGED vars PROVE ApprovalInv'
  <2>1. TypeOK'
    BY <1>2, StepTyped DEF ApprovalInv
  <2> QED
    BY <1>2, <2>1 DEF ApprovalInv, MintedInv, ApprovalStands, vars
<1> QED
  BY <1>1, <1>2

LEMMA ApprovalInit == Init => ApprovalInv
BY InitTyped DEF Init, ApprovalInv, MintedInv, ApprovalStands, NoSha, Base

\* lifecycle.py and the gate's results together: an approval in the checkpoint
\* is for a patch the operator approved on his screen since the task was last
\* sent back to work, because every resume, reopening, healed pass, hand edit and
\* request for changes takes it back, and no rebase or crash gives it to another.
THEOREM ApprovalsStand == Spec => []ApprovalStands
<1>1. ApprovalInv => ApprovalStands
  BY DEF ApprovalInv
<1> QED
  BY <1>1, ApprovalInit, ApprovalInvStep, PTL DEF Spec

-----------------------------------------------------------------------------
(* The approval at the merge *)

LEMMA OthersPlace ==
    ASSUME MarkQueued \/ MarkRunning \/ EndRun \/ Operator \/ Supervisor \/ World
    PROVE  \/ pc' = pc
           \/ pc' = "off" /\ sha' = NoSha /\ appr' = NoSha /\ ~offTip'
           \/ pc \notin Interior /\ pc' \notin Interior
<1> USE DEF Interior
<1>1. CASE MarkQueued \/ MarkRunning \/ EndRun
  BY <1>1 DEF MarkQueued, MarkRunning, EndRun
<1>2. CASE Operator
  BY <1>2 DEF Operator, ResumeShipping, ResumeWork, Reopen, CarryOn, OpenPanel,
     MergeApprove, RequestChanges, OperatorEdit, CommandDecision, Decide, Start
<1>3. CASE Supervisor
  BY <1>3 DEF Supervisor, ConcludeLanded, Heal, SweepWorkspace, Decide, Start
<1>4. CASE World
  BY <1>4 DEF World, StartReview, RecordVerdict, LiveMoves, Crash, Stop, LoseDriver,
     AutoResume, Start
<1> QED
  BY <1>1, <1>2, <1>3, <1>4

LEMMA OthersLook ==
    ASSUME LookInv,
           MarkQueued \/ MarkRunning \/ EndRun \/ Operator \/ Supervisor \/ World
    PROVE  TipInv'
<1>1. /\ UNCHANGED <<patch, used, head>> /\ (blessed \subseteq blessed' \/ pc = "off")
      /\ \/ UNCHANGED <<sha, appr, offTip>>
         \/ sha' = NoSha /\ appr' = NoSha /\ ~offTip' /\ pc' = "off"
  BY OthersMove DEF LookInv, ApprovalInv, MintedInv
<1>2. /\ "off" \notin Interior /\ PastLook \subseteq Shipping
      /\ Shipping \subseteq Interior
  BY DEF Shipping, PastLook, Interior
<1>3. CASE sha' = NoSha /\ appr' = NoSha /\ ~offTip' /\ pc' = "off"
  BY <1>2, <1>3 DEF TipInv
<1>4. CASE UNCHANGED <<sha, appr, offTip>> /\ pc' = pc
  BY <1>1, <1>2, <1>4 DEF TipInv, LookInv
<1>5. CASE UNCHANGED <<sha, appr, offTip>> /\ pc \notin Interior /\ pc' \notin Interior
  BY <1>1, <1>2, <1>5 DEF TipInv, LookInv
<1> QED
  BY <1>1, <1>3, <1>4, <1>5, OthersPlace

\* An approval the gate keeps is still for an approved patch when a commit is
\* minted.
LEMMA ApprKept ==
    ASSUME LookInv, PatchesKept, UNCHANGED <<appr, blessed>>,
           ~offTip, appr \notin {NoSha, Base}
    PROVE  patch'[appr'] \in blessed'
<1>1. appr \in 0..N /\ appr <= used /\ patch[appr] \in blessed
  BY ShaTypes DEF LookInv, ApprovalInv, TypeOK, MintedInv, TipInv
<1> QED
  BY <1>1 DEF PatchesKept

LEMMA WorkLook == ASSUME LookInv, Work PROVE TipInv'
<1>1. PatchesKept /\ UNCHANGED <<blessed, appr, sha, offTip>>
  BY WorkMoves DEF LookInv, ApprovalInv, MintedInv
<1>2. /\ pc \notin Interior /\ pc' \notin Interior
      /\ PastLook \subseteq Shipping /\ Shipping \subseteq Interior
  BY DEF Work, WorkspaceUnavailable, StartWork, AgentEdits, AgentCommits, WorkEnds,
     AtWork, Shipping, PastLook, Interior
<1> QED
  BY <1>1, <1>2, ApprKept DEF TipInv, LookInv

\* The steps that turn the gate to a commit.
LEMMA TurnLook ==
    ASSUME LookInv, GateOpens \/ FastPath \/ AskAgain \/ Commit \/ RebaseCommit
    PROVE  TipInv'
<1> USE DEF Shipping, PastLook, Interior
<1>0. TypeOK /\ head <= used /\ TipInv /\ (pc \notin Shipping => ~offTip)
  BY DEF LookInv, ApprovalInv, MintedInv, TipInv
<1>1. CASE GateOpens
  <2>1. ~offTip' /\ pc' = "gate" /\ appr' = cp.approved /\ UNCHANGED <<patch, blessed>>
    BY <1>0, <1>1 DEF GateOpens, AtGate
  <2>2. appr' # NoSha => patch'[appr'] \in blessed'
    BY <2>1 DEF LookInv, ApprovalInv, ApprovalStands
  <2> QED
    BY <2>1, <2>2 DEF TipInv
<1>2. CASE FastPath
  <2>1. /\ ~offTip /\ pc' = "ask" /\ sha' = cp.approved
        /\ offTip' = (cp.approved # head) /\ UNCHANGED <<appr, patch, head, blessed>>
    BY <1>0, <1>2 DEF FastPath, TurnTo, gitVars
  <2> QED
    BY <1>0, <2>1 DEF TipInv
<1>3. CASE AskAgain
  <2>1. Pending = head
    BY <1>3 DEF AskAgain, Outstanding, Pending
  <2>2. /\ ~offTip /\ pc' = "ask" /\ sha' = head
        /\ UNCHANGED <<appr, offTip, patch, head, blessed>>
    BY <1>0, <1>3, <2>1 DEF AskAgain, Outstanding, TurnTo, gitVars
  <2> QED
    BY <1>0, <2>2 DEF TipInv
<1>4. CASE Commit
  <2>1. ~offTip /\ pc' = "rebase" /\ UNCHANGED <<appr, sha, offTip, blessed>>
    BY <1>0, <1>4 DEF Commit, localVars
  <2>2. PatchesKept
    BY <1>0, <1>4, GateMoves DEF Gate
  <2> QED
    BY <2>1, <2>2, ApprKept DEF TipInv
<1>5. CASE RebaseCommit
  <2>1. ~offTip /\ UNCHANGED <<appr, offTip, blessed>>
    BY <1>0, <1>5 DEF RebaseCommit
  <2>2. PatchesKept
    BY <1>0, <1>5, GateMoves DEF Gate
  <2>3. pc' = "ask" /\ sha' = head'
    BY <1>0, <1>5, RebaseKeeps DEF RebaseCommit, TurnTo
  <2> QED
    BY <2>1, <2>2, <2>3, ApprKept DEF TipInv
<1> QED
  BY <1>1, <1>2, <1>3, <1>4, <1>5

\* The steps from the review to the merge, and back through a rebase.
LEMMA ReviewLook ==
    ASSUME LookInv, Ask \/ PassReview \/ CIPasses \/ Diverge \/ Merge \/ RebaseDiverged
    PROVE  TipInv'
<1> USE DEF Shipping, PastLook, Interior
<1>0. TypeOK /\ TipInv /\ RecordInv /\ head <= used
  BY DEF LookInv, ApprovalInv, MintedInv
<1>1. CASE Ask
  <2>1. pc = "ask" /\ pc' = "review" /\ UNCHANGED <<sha, appr, offTip, patch, head, blessed>>
    BY <1>1 DEF Ask, localVars, gitVars
  <2> QED
    BY <1>0, <2>1 DEF TipInv
<1>2. CASE PassReview
  <2>1. /\ pc = "review" /\ pc' \in {"ship", "ci"} /\ sha \notin {NoSha, Base}
        /\ RequireReview => sha = appr
    BY <1>0, <1>2 DEF PassReview, Answered, NeedsFinalLook, RecordInv
  <2>2. UNCHANGED <<sha, appr, offTip, patch, head, blessed>>
    BY <1>2 DEF PassReview, gitVars
  <2> QED
    BY <1>0, <2>1, <2>2 DEF TipInv
<1>3. CASE CIPasses \/ Diverge \/ Merge
  <2>1. pc \in PastLook /\ pc' \in PastLook
    BY <1>3 DEF CIPasses, Diverge, Merge
  <2>2. UNCHANGED <<sha, appr, offTip, patch, head, blessed>>
    BY <1>3 DEF CIPasses, Diverge, Merge, FastForward, localVars, gitVars
  <2> QED
    BY <1>0, <2>1, <2>2 DEF TipInv
<1>4. CASE RebaseDiverged
  <2>1. PICK c, p \in 0..N :
          Rebase(c, p) /\ TurnTo(c) /\ appr' = IF Carries(p) THEN c ELSE appr
    BY <1>4 DEF RebaseDiverged
  <2>2. /\ pc = "diverged" /\ UNCHANGED <<offTip, blessed>>
        /\ pc' = "ask" /\ sha' = c /\ head' = c
        /\ PatchesKept /\ (c = Base \/ patch'[c] = p)
    BY <1>0, <1>4, <2>1, RebaseKeeps DEF RebaseDiverged, TurnTo
  <2>3. ASSUME ~offTip, appr' \notin {NoSha, Base}, Carries(p)
        PROVE  patch'[appr'] \in blessed'
    <3>1. appr = head /\ p = patch[head] /\ appr' = c /\ patch'[c] = p
      BY <1>0, <2>1, <2>2, <2>3 DEF TipInv, Carries
    <3>2. head # Base
      BY <2>1, <2>3, <3>1 DEF Rebase, Ahead, InLive
    <3>3. head # NoSha
      BY <1>0, NIsNat DEF TypeOK, NoSha
    <3> QED
      BY <1>0, <2>2, <2>3, <3>1, <3>2, <3>3 DEF TipInv
  <2>4. ASSUME ~offTip, appr' \notin {NoSha, Base}, ~Carries(p)
        PROVE  patch'[appr'] \in blessed'
    BY <2>1, <2>2, <2>4, ApprKept
  <2> QED
    BY <2>2, <2>3, <2>4 DEF TipInv
<1> QED
  BY <1>1, <1>2, <1>3, <1>4

LEMMA LookStep == LookInv /\ [Next]_vars => LookInv'
<1>1. ASSUME LookInv, Next PROVE TipInv'
  <2>1. CASE Ends
    BY <2>1, EndsMove DEF TipInv, Shipping, PastLook, Interior
  <2>2. CASE Gate /\ ~Ends
    BY <1>1, <2>2, TurnLook, ReviewLook DEF Gate, Ends
  <2> QED
    BY <1>1, <2>1, <2>2, WorkLook, OthersLook DEF Next, Driver
<1>2. ASSUME LookInv, [Next]_vars PROVE RecordInv'
  <2>1. CASE UNCHANGED vars
    BY <1>2, <2>1 DEF vars, LookInv, RecordInv
  <2>2. CASE Next
    BY <1>2, <2>2, RecordStep DEF LookInv, ApprovalInv
  <2> QED
    BY <1>2, <2>1, <2>2
<1>3. ASSUME LookInv, UNCHANGED vars PROVE TipInv'
  BY <1>3 DEF vars, LookInv, TipInv
<1> QED
  BY <1>1, <1>2, <1>3, ApprovalInvStep DEF LookInv

LEMMA LookInit == Init => LookInv
BY ApprovalInit DEF Init, LookInv, RecordInv, TipInv, Shipping, PastLook, Interior,
   NoSha, Base

\* _review_and_deploy with require_merge_review: a gate that ships the tip of
\* the branch is at CI, at the merge or past it only with a patch the operator
\* approved on his screen, however often main moved, the server died or the
\* task was resumed on the way.
THEOREM MergesAreApproved == Spec => []MergeAttemptApproved
<1>1. LookInv => MergeAttemptApproved
  <2> SUFFICES ASSUME LookInv, RequireReview, ~offTip, pc \in PastLook
               PROVE  sha = head /\ sha = appr /\ patch[sha] \in blessed
    BY DEF MergeAttemptApproved, PastLook
  <2>1. sha = appr /\ sha \notin {NoSha, Base}
    BY DEF LookInv, TipInv
  <2> QED
    BY <2>1 DEF LookInv, TipInv, Shipping, PastLook
<1> QED
  BY <1>1, LookInit, LookStep, PTL DEF Spec

=============================================================================
