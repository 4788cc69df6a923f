-------------------------- MODULE GithubInboxProofs --------------------------
(***************************************************************************)
(* Theorems of GithubInbox, for any items, tasks, polls and bounds: the    *)
(* types, the link between an item and the work on it, no second automatic *)
(* start, and what was dismissed.                                          *)
(*                                                                         *)
(* Everything is said of one item at a time.  Held is about who is writing *)
(* it: the holder of its lock, and the polls whose decision on it is still *)
(* to be applied.  Known is about its tasks, and is what the inbox gives   *)
(* up for an item it lost track of (loose): live work is linked, finished  *)
(* work is linked or remembered in tried, and a decision that was made of  *)
(* what is still true may be applied to it.  A step that is not about the  *)
(* item leaves both alone (Calm).                                          *)
(***************************************************************************)
EXTENDS GithubInbox, TLAPS

Decisions  == {"done", "resolve", "again", "wait", "propose", "keep", "create", "put"}
PollStates == [at : {"idle", "list", "decide", "apply"}, found : [Keys -> 0..MaxPrint],
               touched : SUBSET Keys, plan : [Keys -> Decisions]]
ItemStates == [state : States, fp : 0..MaxPrint, task : Tasks \union {None}, tried : BOOLEAN]
TaskStates == [key : Keys \union {None}, st : Statuses]

PollsTyped ==
    /\ poll \in [Polls -> PollStates]
    /\ \A p \in Polls : poll[p].at # "apply" => \A k \in Keys : poll[p].plan[k] = "done"

Linked == {"task_created", "awaiting_rescan"}

\* TypeOK without its bounds; a task that is waited for or linked was created.
Stored ==
    /\ item \in [Keys -> ItemStates] /\ task \in [Tasks -> TaskStates]
    /\ half \in [Keys -> Tasks \union {None}]
    /\ \A t \in Tasks : task[t].st # "none" => task[t].key \in Keys
    /\ \A k \in Keys : half[k] # None => task[half[k]].key = k /\ task[half[k]].st # "none"
    /\ \A k \in Keys : item[k].state \in Linked =>
           /\ item[k].task \in Tasks
           /\ task[item[k].task].key = k /\ task[item[k].task].st # "none"

Counted ==
    /\ gh \in [Keys -> 0..MaxPrint]
    /\ retried \subseteq Keys /\ loose \subseteq Keys
    /\ events \in 0..MaxEvents /\ ops \in 0..MaxOps /\ faults \in 0..MaxFaults

Ended(t) == task[t].st \in Finished

\* A task of the item that nobody is about to write into it.
Of(t, k) == task[t].key = k /\ half[k] # t

Over(k)  == \A t \in Tasks : Of(t, k) => ~Live(t)
Fixed(k) == \A t \in Tasks : Of(t, k) /\ Ended(t) => item[k].tried

\* A decision that is going to be applied.
Acting(p, k, what) == poll[p].plan[k] \in what /\ Unchanged(p, k)

LiveIsLinked(k) ==
    \A t \in Tasks : Of(t, k) /\ Live(t) => item[k].task = t /\ item[k].state = "task_created"

EndedIsTold(k) ==
    \A t \in Tasks : Of(t, k) /\ Ended(t) =>
        item[k].tried \/ (item[k].task = t /\ item[k].state \in Linked)

Known(k) ==
    /\ LiveIsLinked(k) /\ EndedIsTold(k)
    /\ half[k] # None => Over(k) /\ Fixed(k)
    /\ \A p \in Polls : /\ Acting(p, k, {"create", "propose", "wait", "again"}) => Over(k)
                        /\ Acting(p, k, {"create", "propose"}) => Fixed(k)

Held(k) ==
    /\ \A p, q \in Polls : poll[p].plan[k] = "put" =>
           half[k] # None /\ (poll[q].plan[k] = "put" => q = p)
    /\ half[k] # None /\ (\A p \in Polls : poll[p].plan[k] # "put")
           => item[k].state \in {"proposed", "snoozed"}
    /\ \A p \in Polls :
           /\ Acting(p, k, {"wait", "again"}) => item[k].state \in Linked
           /\ Acting(p, k, {"create"}) => ~item[k].tried
           /\ Acting(p, k, {"create", "propose"}) \/ poll[p].plan[k] = "put"
                  => (item[k].state = "dismissed" => poll[p].found[k] # item[k].fp)

ItemInv(k) == Held(k) /\ (k \notin loose => Known(k))

IInv == /\ Stored /\ Counted /\ PollsTyped
        /\ \A k \in Keys : ItemInv(k)
        /\ NeverAutoRetried

LEMMA IInvTypes == IInv => TypeOK
  BY DEF IInv, Stored, Counted, TypeOK, ItemStates, TaskStates, Linked

LEMMA InitIInv == Init => IInv
<1> SUFFICES ASSUME Init PROVE IInv
  OBVIOUS
<1>1. Stored /\ Counted
  BY ConstantsAssumption
     DEF ConstantsAssumption, Init, Stored, Counted, NoItem, NoTask, States, Statuses, ItemStates,
         TaskStates, Linked
<1>2. PollsTyped
  BY ConstantsAssumption DEF ConstantsAssumption, Init, PollsTyped, Idle, PollStates, Decisions
<1>3. \A k \in Keys : Held(k) /\ Known(k)
  BY DEF Init, Held, Known, LiveIsLinked, EndedIsTold, Over, Fixed, Acting, Idle, NoTask, Live,
         Ended, Finished
<1>4. NeverAutoRetried
  BY DEF Init, NeverAutoRetried
<1> QED BY <1>1, <1>2, <1>3, <1>4 DEF IInv, ItemInv

-----------------------------------------------------------------------------
(* What the parts of a step do *)

\* An item as the polls see it.
SeenAs(k, q) == /\ poll'[q].plan[k] = poll[q].plan[k] /\ poll'[q].found[k] = poll[q].found[k]
                /\ Unchanged(q, k)' <=> Unchanged(q, k)

LEMMA TouchedDoes ==
    ASSUME PollsTyped, NEW k \in Keys, poll' = Touched(k)
    PROVE  /\ PollsTyped'
           /\ \A q \in Polls : \A j \in Keys : j # k => SeenAs(j, q)
           /\ \A q \in Polls : /\ poll'[q].plan[k] = poll[q].plan[k]
                               /\ poll[q].plan[k] # "done" => ~Unchanged(q, k)'
<1> USE DEF PollStates
<1>1. poll \in [Polls -> PollStates]
  BY DEF PollsTyped
<1>2. ASSUME NEW q \in Polls
      PROVE  /\ poll'[q] \in PollStates /\ poll'[q].at = poll[q].at
             /\ poll'[q].plan = poll[q].plan /\ poll'[q].found = poll[q].found
             /\ \A j \in Keys : j # k => (j \in poll'[q].touched <=> j \in poll[q].touched)
             /\ Awaits(q, k) => k \in poll'[q].touched
  <2>1. poll'[q] = IF Awaits(q, k) THEN [poll[q] EXCEPT !.touched = @ \union {k}] ELSE poll[q]
    BY <1>2 DEF Touched
  <2>2. poll[q] \in PollStates /\ poll[q].touched \union {k} \in SUBSET Keys
    BY <1>1, <1>2
  <2>3. CASE Awaits(q, k)
    <3>1. poll'[q] = [poll[q] EXCEPT !.touched = @ \union {k}]
      BY <2>1, <2>3
    <3> QED BY <2>2, <3>1
  <2>4. CASE ~Awaits(q, k)
    BY <2>1, <2>2, <2>4
  <2> QED BY <2>3, <2>4
<1>3. poll' \in [Polls -> PollStates]
  <2>1. poll' = [q \in Polls |-> poll'[q]]
    BY DEF Touched
  <2> QED BY <1>2, <2>1
<1>4. \A q \in Polls : poll[q].plan[k] # "done" => Awaits(q, k)
  BY <1>1 DEF PollsTyped, Awaits
<1> QED BY <1>2, <1>3, <1>4 DEF PollsTyped, SeenAs, Unchanged

LEMMA DoneDoes ==
    ASSUME PollsTyped, NEW p \in Polls, NEW k \in Keys, NEW w \in BOOLEAN, Done(k, p, w),
           poll[p].at = "apply"
    PROVE  /\ PollsTyped'
           /\ \A q \in Polls : \A j \in Keys : j # k => SeenAs(j, q)
           /\ poll'[p].plan[k] = "done"
           /\ \A q \in Polls : q # p =>
                /\ poll'[q].plan[k] = poll[q].plan[k]
                /\ w /\ poll[q].plan[k] # "done" => ~Unchanged(q, k)'
                /\ ~w => SeenAs(k, q)
<1> USE DEF PollStates
<1>1. poll \in [Polls -> PollStates]
  BY DEF PollsTyped
<1> DEFINE polls == IF w THEN Touched(k) ELSE poll
<1>2. /\ polls \in [Polls -> PollStates]
      /\ \A q \in Polls :
           /\ polls[q].at = poll[q].at /\ polls[q].plan = poll[q].plan
           /\ polls[q].found = poll[q].found
           /\ \A j \in Keys : j # k => (j \in polls[q].touched <=> j \in poll[q].touched)
           /\ w /\ poll[q].plan[k] # "done" => k \in polls[q].touched
           /\ ~w => polls[q] = poll[q]
  <2>1. CASE ~w
    BY <1>1, <2>1
  <2>2. CASE w
    <3>1. \A q \in Polls : polls[q] = IF Awaits(q, k) THEN [poll[q] EXCEPT !.touched = @ \union {k}]
                                      ELSE poll[q]
      BY <2>2 DEF Touched
    <3>2. \A q \in Polls : poll[q].plan[k] # "done" => Awaits(q, k)
      BY <1>1 DEF PollsTyped, Awaits
    <3>3. ASSUME NEW q \in Polls
          PROVE  /\ polls[q] \in PollStates
                 /\ polls[q].at = poll[q].at /\ polls[q].plan = poll[q].plan
                 /\ polls[q].found = poll[q].found
                 /\ \A j \in Keys : j # k => (j \in polls[q].touched <=> j \in poll[q].touched)
                 /\ Awaits(q, k) => k \in polls[q].touched
      <4>1. poll[q] \in PollStates /\ poll[q].touched \union {k} \in SUBSET Keys
        BY <1>1, <3>3
      <4>2. CASE Awaits(q, k)
        <5>1. polls[q] = [poll[q] EXCEPT !.touched = @ \union {k}]
          BY <3>1, <3>3, <4>2
        <5> HIDE DEF polls
        <5> QED BY <4>1, <5>1
      <4>3. CASE ~Awaits(q, k)
        <5>1. polls[q] = poll[q]
          BY <3>1, <3>3, <4>3
        <5> HIDE DEF polls
        <5> QED BY <4>1, <4>3, <5>1
      <4> QED BY <4>2, <4>3
    <3>4. polls = [q \in Polls |-> polls[q]]
      BY <2>2 DEF Touched
    <3> HIDE DEF polls
    <3>5. polls \in [Polls -> PollStates]
      BY <3>3, <3>4
    <3> QED BY <2>2, <3>2, <3>3, <3>5
  <2> QED BY <2>1, <2>2
<1>3. poll' = [polls EXCEPT ![p].plan[k] = "done", ![p].found[k] = 0, ![p].touched = @ \ {k}]
  BY DEF Done
<1> HIDE DEF polls
<1>4. /\ poll'[p] = [polls[p] EXCEPT !.plan[k] = "done", !.found[k] = 0, !.touched = @ \ {k}]
      /\ \A q \in Polls : q # p => poll'[q] = polls[q]
  <2>1. p \in DOMAIN polls /\ DOMAIN polls = Polls
    BY <1>2
  <2> QED BY <1>3, <2>1
<1>5. /\ poll'[p] \in PollStates /\ poll'[p].at = "apply" /\ poll'[p].plan[k] = "done"
      /\ \A j \in Keys : j # k =>
           /\ poll'[p].plan[j] = poll[p].plan[j] /\ poll'[p].found[j] = poll[p].found[j]
           /\ j \in poll'[p].touched <=> j \in poll[p].touched
  <2>1. polls[p] \in PollStates /\ polls[p].touched \ {k} \in SUBSET Keys
    BY <1>2
  <2>2. /\ [polls[p].plan EXCEPT ![k] = "done"] \in [Keys -> Decisions]
        /\ [polls[p].found EXCEPT ![k] = 0] \in [Keys -> 0..MaxPrint]
    BY <2>1, ConstantsAssumption DEF ConstantsAssumption, Decisions
  <2>3. /\ poll'[p].at = polls[p].at /\ poll'[p].plan = [polls[p].plan EXCEPT ![k] = "done"]
        /\ poll'[p].found = [polls[p].found EXCEPT ![k] = 0]
        /\ poll'[p].touched = polls[p].touched \ {k}
        /\ poll'[p] = [at |-> poll'[p].at, found |-> poll'[p].found, touched |-> poll'[p].touched,
                       plan |-> poll'[p].plan]
    BY <1>4, <2>1
  <2>4. poll'[p] \in PollStates
    BY <2>1, <2>2, <2>3
  <2>5. polls[p].at = "apply" /\ polls[p].plan = poll[p].plan /\ polls[p].found = poll[p].found
    BY <1>2
  <2>6. \A j \in Keys : j # k => (j \in poll'[p].touched <=> j \in poll[p].touched)
    BY <1>2, <2>3
  <2>7. \A j \in Keys : j # k =>
          poll'[p].plan[j] = polls[p].plan[j] /\ poll'[p].found[j] = polls[p].found[j]
    BY <2>1, <2>3
  <2>8. poll'[p].plan[k] = "done"
    BY <2>1, <2>3
  <2> QED BY <2>3, <2>4, <2>5, <2>6, <2>7, <2>8
<1> HIDE DEF PollStates
<1>6. PollsTyped'
  <2>1. \A q \in Polls : poll'[q] \in PollStates
    BY <1>2, <1>4, <1>5
  <2>2. poll' = [q \in Polls |-> poll'[q]]
    <3>1. DOMAIN polls = Polls
      BY <1>2
    <3> QED BY <1>3, <3>1
  <2>3. poll' \in [Polls -> PollStates]
    BY <2>1, <2>2
  <2>4. ASSUME NEW q \in Polls, poll'[q].at # "apply"
        PROVE  \A j \in Keys : poll'[q].plan[j] = "done"
    <3>1. q # p /\ poll'[q] = polls[q]
      BY <1>4, <1>5, <2>4
    <3> QED BY <1>2, <2>4, <3>1 DEF PollsTyped
  <2> QED BY <2>3, <2>4 DEF PollsTyped
<1>7. ASSUME NEW q \in Polls, q # p
      PROVE  /\ poll'[q].plan = poll[q].plan /\ poll'[q].found = poll[q].found
             /\ \A j \in Keys : j # k => (j \in poll'[q].touched <=> j \in poll[q].touched)
             /\ w /\ poll[q].plan[k] # "done" => k \in poll'[q].touched
             /\ ~w => poll'[q] = poll[q]
  BY <1>2, <1>4, <1>7
<1>8. \A q \in Polls : \A j \in Keys : j # k => SeenAs(j, q)
  BY <1>5, <1>7 DEF SeenAs, Unchanged
<1>9. \A q \in Polls : q # p =>
        /\ poll'[q].plan[k] = poll[q].plan[k]
        /\ w /\ poll[q].plan[k] # "done" => ~Unchanged(q, k)'
        /\ ~w => SeenAs(k, q)
  BY <1>7 DEF SeenAs, Unchanged
<1> QED BY <1>5, <1>6, <1>8, <1>9

\* Nobody writes the item, and its polls may only be over with it.
Left(k) ==
    /\ item'[k] = item[k] /\ half'[k] = half[k]
    /\ \A p \in Polls :
           \/ SeenAs(k, p)
           \/ poll'[p].plan[k] = "done" /\ poll[p].plan[k] # "put"

\* A step that is not about the item: its tasks may only end.
Calm(k) ==
    /\ Left(k) /\ (k \in loose => k \in loose')
    /\ \A t \in Tasks : task'[t].key = k =>
           /\ task[t].key = k /\ (Live(t)' => Live(t))
           /\ Ended(t)' => Ended(t) \/ Live(t)

Deeds == SUBSET (Decisions \ {"done"})

LEMMA DeedSets ==
    /\ {"create", "propose", "wait", "again"} \in Deeds /\ {"create", "propose"} \in Deeds
    /\ {"create"} \in Deeds /\ {"wait", "again"} \in Deeds
  BY DEF Deeds, Decisions

LEMMA LeftActs ==
    ASSUME NEW k \in Keys, Left(k)
    PROVE  \A p \in Polls : \A what \in Deeds : Acting(p, k, what)' => Acting(p, k, what)
  BY DEF Acting, Left, SeenAs, Deeds

LEMMA LeftKeeps == ASSUME NEW k \in Keys, Held(k), Left(k) PROVE Held(k)'
<1>1. \A p \in Polls : poll'[p].plan[k] = "put" <=> poll[p].plan[k] = "put"
  BY DEF Left, SeenAs
<1>2. \A p \in Polls : Acting(p, k, {"create", "propose"})' \/ poll'[p].plan[k] = "put"
                       => poll'[p].found[k] = poll[p].found[k]
  BY DEF Acting, Left, SeenAs
<1>3. UNCHANGED <<item[k], half[k]>>
  BY DEF Left
<1> QED BY <1>1, <1>2, <1>3, LeftActs, DeedSets DEF Held

LEMMA CalmKeeps == ASSUME NEW k \in Keys, ItemInv(k), Calm(k) PROVE ItemInv(k)'
<1>1. Held(k)'
  BY LeftKeeps DEF ItemInv, Calm
<1>2. ASSUME k \notin loose' PROVE Known(k)'
  <2>1. Known(k)
    BY <1>2 DEF Calm, ItemInv
  <2>2. UNCHANGED <<item[k], half[k]>>
    BY DEF Calm, Left
  <2>3. \A t \in Tasks : Of(t, k)' => Of(t, k) /\ (Live(t)' => Live(t)) /\ (Ended(t)' => Ended(t) \/ Live(t))
    BY <2>2 DEF Calm, Of
  <2>4. LiveIsLinked(k)' /\ EndedIsTold(k)'
    BY <2>1, <2>2, <2>3 DEF Known, LiveIsLinked, EndedIsTold, Linked
  <2>5. (Over(k) => Over(k)') /\ (Over(k) /\ Fixed(k) => Fixed(k)')
    BY <2>2, <2>3 DEF Over, Fixed
  <2>6. half'[k] # None => Over(k)' /\ Fixed(k)'
    BY <2>1, <2>2, <2>5 DEF Known
  <2>7. ASSUME NEW p \in Polls
        PROVE  /\ Acting(p, k, {"create", "propose", "wait", "again"})' => Over(k)'
               /\ Acting(p, k, {"create", "propose"})' => Fixed(k)'
    <3>1. /\ Acting(p, k, {"create", "propose", "wait", "again"}) => Over(k)
          /\ Acting(p, k, {"create", "propose"}) => Over(k) /\ Fixed(k)
      BY <2>1, <2>7 DEF Known, Acting
    <3>2. \A what \in Deeds : Acting(p, k, what)' => Acting(p, k, what)
      BY <2>7, LeftActs DEF Calm
    <3> QED BY <2>5, <3>1, <3>2, DeedSets
  <2> QED BY <2>4, <2>6, <2>7 DEF Known
<1> QED BY <1>1, <1>2 DEF ItemInv

\* Just written: whatever was decided of the item before is void.
Settled(k) ==
    /\ half[k] = None
    /\ \A q \in Polls : poll[q].plan[k] # "done" => poll[q].plan[k] # "put" /\ ~Unchanged(q, k)

LEMMA SettledHolds ==
    ASSUME NEW k \in Keys, Settled(k)', k \notin loose' => LiveIsLinked(k)' /\ EndedIsTold(k)'
    PROVE  ItemInv(k)'
<1>1. half'[k] = None
  BY DEF Settled
<1>2. \A p \in Polls : poll'[p].plan[k] # "put"
  BY DEF Settled
<1>3. \A p \in Polls : /\ ~Acting(p, k, {"create", "propose", "wait", "again"})'
                       /\ ~Acting(p, k, {"create", "propose"})'
                       /\ ~Acting(p, k, {"create"})' /\ ~Acting(p, k, {"wait", "again"})'
  BY DEF Settled, Acting
<1>4. Held(k)'
  <2>1. \A p, q \in Polls : poll'[p].plan[k] = "put" =>
           half'[k] # None /\ (poll'[q].plan[k] = "put" => q = p)
    BY <1>2
  <2>2. half'[k] # None /\ (\A p \in Polls : poll'[p].plan[k] # "put")
           => item'[k].state \in {"proposed", "snoozed"}
    BY <1>1
  <2> QED BY <1>2, <1>3, <2>1, <2>2 DEF Held
<1>5. ASSUME k \notin loose' PROVE Known(k)'
  BY <1>1, <1>3, <1>5 DEF Known
<1> QED BY <1>4, <1>5 DEF ItemInv

\* The other things a poll does to itself.
LEMMA GoesDoes ==
    ASSUME PollsTyped, NEW p \in Polls, NEW r \in PollStates, Goes(p, r),
           r.at # "apply" => \A k \in Keys : r.plan[k] = "done"
    PROVE  /\ PollsTyped' /\ poll'[p] = r
           /\ \A q \in Polls : q # p => poll'[q] = poll[q]
           /\ \A q \in Polls : q # p => \A k \in Keys : SeenAs(k, q)
<1>1. poll \in [Polls -> PollStates] /\ poll' = [poll EXCEPT ![p] = r]
  BY DEF PollsTyped, Goes
<1>2. poll' \in [Polls -> PollStates] /\ poll'[p] = r /\ \A q \in Polls : q # p => poll'[q] = poll[q]
  BY <1>1
<1>3. PollsTyped'
  BY <1>2 DEF PollsTyped
<1> QED BY <1>2, <1>3 DEF SeenAs, Unchanged

LEMMA IdleTyped ==
    /\ Idle \in PollStates /\ Idle.at = "idle" /\ Idle.touched = {}
    /\ \A k \in Keys : Idle.plan[k] = "done"
  BY ConstantsAssumption DEF ConstantsAssumption, Idle, PollStates, Decisions

\* A poll that has decided nothing, or is done with everything.
Bare(p) == \A k \in Keys : poll[p].plan[k] = "done"

LEMMA BareGoes ==
    ASSUME IInv, NEW p \in Polls, Bare(p), NEW r \in PollStates, Goes(p, r),
           \A k \in Keys : r.plan[k] = "done",
           UNCHANGED <<item, task, half, history>>
    PROVE  PollsTyped' /\ Stored' /\ NeverAutoRetried' /\ \A k \in Keys : ItemInv(k)'
<1>1. PollsTyped
  BY DEF IInv
<1>2. /\ PollsTyped' /\ poll'[p] = r
      /\ \A q \in Polls : q # p => \A k \in Keys : SeenAs(k, q)
  BY <1>1, GoesDoes
<1>3. Stored' /\ NeverAutoRetried'
  BY DEF IInv, Stored, NeverAutoRetried, history
<1>4. ASSUME NEW k \in Keys PROVE ItemInv(k)'
  <2>1. \A q \in Polls : SeenAs(k, q) \/ (poll'[q].plan[k] = "done" /\ poll[q].plan[k] # "put")
    BY <1>2 DEF Bare
  <2>2. Left(k)
    BY <2>1 DEF Left
  <2>3. Calm(k)
    BY <2>2 DEF Calm, history, Live, Ended
  <2> QED BY <2>3, CalmKeeps DEF IInv
<1> QED BY <1>2, <1>3, <1>4

LEMMA DiscoverKeeps == ASSUME IInv, NEW p \in Polls, Discover(p) PROVE IInv'
<1>1. PICK lost \in SUBSET Keys :
        /\ (lost = {} /\ UNCHANGED faults) \/ Faults
        /\ Goes(p, [Idle EXCEPT !.at = "list",
                                !.found = [k \in Keys |-> IF k \in lost THEN 0 ELSE gh[k]]])
  BY DEF Discover
<1> DEFINE fnd == [k \in Keys |-> IF k \in lost THEN 0 ELSE gh[k]]
           r == [Idle EXCEPT !.at = "list", !.found = fnd]
<1>2. r \in PollStates /\ r.plan = Idle.plan /\ r.at = "list"
  <2>1. fnd \in [Keys -> 0..MaxPrint]
    BY ConstantsAssumption DEF ConstantsAssumption, IInv, Counted
  <2> HIDE DEF fnd
  <2> QED BY <2>1, IdleTyped DEF PollStates
<1>3. Bare(p)
  BY DEF IInv, PollsTyped, Discover, Idles, Bare
<1>4. Counted'
  BY <1>1, ConstantsAssumption DEF ConstantsAssumption, IInv, Counted, Discover, Faults, history
<1>5. Goes(p, r) /\ \A k \in Keys : r.plan[k] = "done"
  BY <1>1, <1>2, IdleTyped
<1> HIDE DEF r
<1>6. UNCHANGED <<item, task, half, history>>
  BY DEF Discover
<1> QED BY <1>2, <1>3, <1>4, <1>5, <1>6, BareGoes DEF IInv

LEMMA ListKeeps == ASSUME IInv, NEW p \in Polls, List(p) PROVE IInv'
<1> DEFINE r == [poll[p] EXCEPT !.at = "decide"]
<1>1. poll[p] \in PollStates /\ Bare(p)
  BY DEF IInv, PollsTyped, List, Bare
<1>2. r \in PollStates /\ r.plan = poll[p].plan
  BY <1>1 DEF PollStates
<1>3. Goes(p, r) /\ \A k \in Keys : r.plan[k] = "done"
  BY <1>1, <1>2 DEF List, Bare
<1> HIDE DEF r
<1>4. Counted' /\ UNCHANGED <<item, task, half, history>>
  BY DEF IInv, Counted, List, history, bounds
<1> QED BY <1>1, <1>2, <1>3, <1>4, BareGoes DEF IInv

LEMMA EndPollKeeps == ASSUME IInv, NEW p \in Polls, EndPoll(p) PROVE IInv'
<1>1. Bare(p) /\ Goes(p, Idle)
  BY DEF EndPoll, Bare
<1>2. Counted' /\ UNCHANGED <<item, task, half, history>>
  BY DEF IInv, Counted, EndPoll, history, bounds
<1> QED BY <1>1, <1>2, IdleTyped, BareGoes DEF IInv

LEMMA GitHubMovesKeeps == ASSUME IInv, NEW k \in Keys, GitHubMoves(k) PROVE IInv'
<1>1. Counted'
  <2>1. PICK fp \in 0..MaxPrint : gh' = [gh EXCEPT ![k] = fp]
    BY DEF GitHubMoves
  <2> QED BY <2>1, ConstantsAssumption DEF ConstantsAssumption, IInv, Counted, GitHubMoves, history
<1>2. Stored' /\ PollsTyped' /\ NeverAutoRetried'
  BY DEF IInv, Stored, PollsTyped, NeverAutoRetried, GitHubMoves, history
<1>3. ASSUME NEW j \in Keys PROVE ItemInv(j)'
  <2>1. Left(j) /\ Calm(j)
    BY DEF GitHubMoves, history, Left, Calm, SeenAs, Unchanged, Live, Ended
  <2> QED BY <2>1, CalmKeeps DEF IInv
<1> QED BY <1>1, <1>2, <1>3 DEF IInv

LEMMA StutterIInv == IInv /\ UNCHANGED vars => IInv'
<1> SUFFICES ASSUME IInv, UNCHANGED vars PROVE IInv'
  OBVIOUS
<1>1. Counted' /\ Stored' /\ PollsTyped' /\ NeverAutoRetried'
  BY DEF IInv, Counted, Stored, PollsTyped, NeverAutoRetried, vars
<1>2. ASSUME NEW j \in Keys PROVE ItemInv(j)'
  <2>1. Left(j) /\ Calm(j)
    BY DEF vars, Left, Calm, SeenAs, Unchanged, Live, Ended
  <2> QED BY <2>1, CalmKeeps DEF IInv
<1> QED BY <1>1, <1>2 DEF IInv

-----------------------------------------------------------------------------
(* The tasks *)

Open == {"bare", "queued", "running"}

LEMMA BecomesStores ==
    ASSUME IInv, NEW t \in Tasks, NEW from, NEW to \in Statuses \ {"none"}, Becomes(t, from, to),
           "none" \notin from
    PROVE  /\ Stored' /\ PollsTyped' /\ \A k \in Keys : Left(k)
           /\ task'[t].key = task[t].key /\ task'[t].st = to /\ task[t].st \in from
           /\ \A u \in Tasks : u # t => task'[u] = task[u]
<1>1. task \in [Tasks -> TaskStates] /\ task[t] \in TaskStates
  BY DEF IInv, Stored
<1>2. /\ task' = [task EXCEPT ![t].st = to] /\ task[t].st \in from
      /\ UNCHANGED <<item, half, poll>>
  BY DEF Becomes
<1>3. /\ task' \in [Tasks -> TaskStates]
      /\ task'[t].key = task[t].key /\ task'[t].st = to
      /\ \A u \in Tasks : u # t => task'[u] = task[u]
  BY <1>1, <1>2 DEF TaskStates
<1>4. Stored'
  <2>1. \A u \in Tasks : task'[u].key = task[u].key /\ (task'[u].st = "none" <=> task[u].st = "none")
    BY <1>2, <1>3
  <2>2. UNCHANGED item /\ UNCHANGED half
    BY <1>2
  <2>3. /\ \A u \in Tasks : task'[u].st # "none" => task'[u].key \in Keys
        /\ \A k \in Keys : half'[k] # None => task'[half'[k]].key = k /\ task'[half'[k]].st # "none"
    BY <2>1, <2>2 DEF IInv, Stored
  <2>4. \A k \in Keys : item'[k].state \in Linked =>
           /\ item'[k].task \in Tasks
           /\ task'[item'[k].task].key = k /\ task'[item'[k].task].st # "none"
    BY <2>1, <2>2 DEF IInv, Stored
  <2> QED BY <1>3, <2>2, <2>3, <2>4 DEF IInv, Stored
<1>5. PollsTyped' /\ \A k \in Keys : Left(k)
  BY <1>2 DEF IInv, PollsTyped, Left, SeenAs, Unchanged
<1> QED BY <1>2, <1>3, <1>4, <1>5

LEMMA EndingKeeps ==
    ASSUME IInv, NEW t \in Tasks, NEW from, NEW to \in Statuses \ {"none"}, Becomes(t, from, to),
           "none" \notin from, UNCHANGED <<loose, ops>>,
           to \in Open => from \subseteq Open,
           to \in Finished => from \subseteq Open \union Finished
    PROVE  IInv'
<1>1. /\ Stored' /\ PollsTyped' /\ \A k \in Keys : Left(k)
      /\ task'[t].key = task[t].key /\ task'[t].st = to /\ task[t].st \in from
      /\ \A u \in Tasks : u # t => task'[u] = task[u]
  BY BecomesStores
<1>2. Counted' /\ NeverAutoRetried'
  BY DEF IInv, Counted, NeverAutoRetried, Becomes
<1>3. ASSUME NEW k \in Keys PROVE ItemInv(k)'
  <2>1. \A u \in Tasks : /\ task'[u].key = task[u].key /\ (Live(u)' => Live(u))
                         /\ Ended(u)' => Ended(u) \/ Live(u)
    BY <1>1 DEF Live, Ended, Open
  <2>2. Calm(k)
    BY <1>1, <2>1 DEF Calm
  <2> QED BY <2>2, CalmKeeps DEF IInv
<1> QED BY <1>1, <1>2, <1>3 DEF IInv

LEMMA TaskEndsKeeps ==
    ASSUME IInv, NEW t \in Tasks,
           MarkQueued(t) \/ Run(t) \/ Finish(t) \/ Settle(t) \/ StopTask(t) \/ DeleteTask(t)
    PROVE  IInv'
<1> USE DEF Statuses, Open, Finished
<1>1. CASE MarkQueued(t)
  BY <1>1, EndingKeeps DEF MarkQueued
<1>2. CASE Run(t)
  BY <1>2, EndingKeeps DEF Run
<1>3. CASE Finish(t)
  BY <1>3, EndingKeeps DEF Finish
<1>4. CASE Settle(t)
  BY <1>4, EndingKeeps DEF Settle
<1>5. CASE StopTask(t)
  BY <1>5, EndingKeeps DEF StopTask
<1>6. CASE DeleteTask(t)
  BY <1>6, EndingKeeps DEF DeleteTask
<1> QED BY <1>1, <1>2, <1>3, <1>4, <1>5, <1>6

LEMMA ResumeTaskKeeps == ASSUME IInv, NEW t \in Tasks, ResumeTask(t) PROVE IInv'
<1> DEFINE from == {"done", "settled", "ended"}
<1>1. Becomes(t, from, "running") /\ "none" \notin from /\ "running" \in Statuses \ {"none"}
  BY DEF ResumeTask, Statuses
<1> HIDE DEF from
<1>2. /\ Stored' /\ PollsTyped' /\ \A k \in Keys : Left(k)
      /\ task'[t].key = task[t].key /\ task[t].st \in from
      /\ \A u \in Tasks : u # t => task'[u] = task[u]
  BY <1>1, BecomesStores
<1>3. task[t].key \in Keys /\ loose' = loose \union {task[t].key}
  BY <1>1, <1>2 DEF IInv, Stored, ResumeTask, Lost
<1>4. Counted' /\ NeverAutoRetried'
  BY <1>3, ConstantsAssumption
     DEF ConstantsAssumption, IInv, Counted, NeverAutoRetried, Becomes, ResumeTask, Acts
<1>5. ASSUME NEW k \in Keys PROVE ItemInv(k)'
  <2>1. CASE k = task[t].key
    BY <1>2, <1>3, <2>1, LeftKeeps DEF IInv, ItemInv
  <2>2. CASE k # task[t].key
    <3>1. Calm(k)
      BY <1>2, <1>3, <2>2 DEF Calm, Live, Ended
    <3> QED BY <3>1, CalmKeeps DEF IInv
  <2> QED BY <2>1, <2>2
<1> QED BY <1>2, <1>4, <1>5 DEF IInv

-----------------------------------------------------------------------------
(* An item is written *)

\* What the tasks of an item ask of what is written into it.
Tells(k, i) ==
    \A t \in Tasks : task[t].key = k =>
        /\ Live(t) => i.task = t /\ i.state = "task_created"
        /\ Ended(t) => i.tried \/ (i.task = t /\ i.state \in Linked)

Links(k, i) == i.state \in Linked =>
    i.task \in Tasks /\ task[i.task].key = k /\ task[i.task].st # "none"

LEMMA WrittenKeeps ==
    ASSUME IInv, NEW k \in Keys, NEW i \in ItemStates, item' = [item EXCEPT ![k] = i],
           UNCHANGED <<task, retried>>, half' = half \/ half' = [half EXCEPT ![k] = None],
           PollsTyped', \A q \in Polls : \A j \in Keys : j # k => SeenAs(j, q),
           Settled(k)', Counted', loose \subseteq loose', Links(k, i), k \notin loose' => Tells(k, i)
    PROVE  IInv'
<1>1. /\ item \in [Keys -> ItemStates] /\ task \in [Tasks -> TaskStates]
      /\ half \in [Keys -> Tasks \union {None}]
  BY DEF IInv, Stored
<1>2. item' \in [Keys -> ItemStates] /\ item'[k] = i /\ \A j \in Keys : j # k => item'[j] = item[j]
  BY <1>1
<1>3. half' \in [Keys -> Tasks \union {None}] /\ \A j \in Keys : j # k => half'[j] = half[j]
  <2>1. CASE half' = half
    BY <1>1, <2>1
  <2>2. CASE half' = [half EXCEPT ![k] = None]
    BY <1>1, <2>2
  <2> QED BY <2>1, <2>2
<1>4. half'[k] = None
  BY DEF Settled
<1>5. Stored'
  <2>1. task' = task
    OBVIOUS
  <2>2. \A j \in Keys : half'[j] # None => task[half'[j]].key = j /\ task[half'[j]].st # "none"
    BY <1>3, <1>4 DEF IInv, Stored
  <2>3. \A j \in Keys : item'[j].state \in Linked =>
           /\ item'[j].task \in Tasks
           /\ task[item'[j].task].key = j /\ task[item'[j].task].st # "none"
    BY <1>2 DEF IInv, Stored, Links
  <2> QED BY <1>2, <1>3, <2>1, <2>2, <2>3 DEF IInv, Stored
<1>6. NeverAutoRetried'
  BY DEF IInv, NeverAutoRetried
<1>7. ItemInv(k)'
  <2>1. ASSUME k \notin loose' PROVE LiveIsLinked(k)' /\ EndedIsTold(k)'
    <3>1. Tells(k, i)
      BY <2>1
    <3>2. \A t \in Tasks : (Live(t)' <=> Live(t)) /\ (Ended(t)' <=> Ended(t)) /\ task'[t].key = task[t].key
      BY DEF Live, Ended
    <3> QED BY <1>2, <3>1, <3>2 DEF Tells, LiveIsLinked, EndedIsTold, Of
  <2> QED BY <2>1, SettledHolds
<1>8. ASSUME NEW j \in Keys, j # k PROVE ItemInv(j)'
  <2>1. Left(j)
    BY <1>2, <1>3, <1>8 DEF Left
  <2>2. Calm(j)
    BY <2>1 DEF Calm, Live, Ended
  <2> QED BY <2>2, CalmKeeps DEF IInv
<1> QED BY <1>5, <1>6, <1>7, <1>8 DEF IInv

\* By a poll, which has the item's lock or is alone with it.
LEMMA WriteKeeps ==
    ASSUME IInv, NEW p \in Polls, NEW k \in Keys, NEW i \in ItemStates, Write(p, k, i),
           poll[p].at = "apply", UNCHANGED <<task, retried>>,
           \/ half[k] = None /\ half' = half
           \/ poll[p].plan[k] = "put" /\ half' = [half EXCEPT ![k] = None],
           Counted', loose \subseteq loose', Links(k, i), k \notin loose' => Tells(k, i)
    PROVE  IInv'
<1>1. PollsTyped /\ Done(k, p, TRUE) /\ TRUE \in BOOLEAN
  BY DEF IInv, Write
<1>2. /\ PollsTyped' /\ \A q \in Polls : \A j \in Keys : j # k => SeenAs(j, q)
      /\ poll'[p].plan[k] = "done"
      /\ \A q \in Polls : q # p => /\ poll'[q].plan[k] = poll[q].plan[k]
                                   /\ poll[q].plan[k] # "done" => ~Unchanged(q, k)'
  BY <1>1, DoneDoes
<1>3. half'[k] = None
  BY DEF IInv, Stored
<1>4. \A q \in Polls : q # p => poll[q].plan[k] # "put"
  BY DEF IInv, ItemInv, Held
<1>5. Settled(k)'
  BY <1>2, <1>3, <1>4 DEF Settled
<1>6. half' = half \/ half' = [half EXCEPT ![k] = None]
  OBVIOUS
<1> QED BY <1>2, <1>5, <1>6, WrittenKeeps DEF Write

\* By the operator.
LEMMA PutKeeps ==
    ASSUME IInv, NEW k \in Keys, NEW i \in ItemStates, Put(k, i),
           UNCHANGED <<task, retried>>, \A q \in Polls : poll[q].plan[k] # "put",
           \/ half[k] = None /\ half' = half
           \/ half' = [half EXCEPT ![k] = None],
           Counted', loose \subseteq loose', Links(k, i), k \notin loose' => Tells(k, i)
    PROVE  IInv'
<1>1. PollsTyped /\ poll' = Touched(k)
  BY DEF IInv, Put
<1>2. /\ PollsTyped' /\ \A q \in Polls : \A j \in Keys : j # k => SeenAs(j, q)
      /\ \A q \in Polls : /\ poll'[q].plan[k] = poll[q].plan[k]
                          /\ poll[q].plan[k] # "done" => ~Unchanged(q, k)'
  BY <1>1, TouchedDoes
<1>3. half'[k] = None
  BY DEF IInv, Stored
<1>4. Settled(k)'
  BY <1>2, <1>3 DEF Settled
<1>5. half' = half \/ half' = [half EXCEPT ![k] = None]
  OBVIOUS
<1> QED BY <1>2, <1>4, <1>5, WrittenKeeps DEF Put

\* What is decided to be started or offered has no work left on it.
LEMMA FreeTells ==
    ASSUME IInv, NEW k \in Keys, half[k] = None, Over(k), Fixed(k), NEW i,
           i.tried = item[k].tried
    PROVE  Tells(k, i)
<1>1. \A t \in Tasks : half[k] # t
  BY ConstantsAssumption DEF ConstantsAssumption
<1> QED BY <1>1 DEF Tells, Of, Over, Fixed

\* A decision is dropped.
LEMMA DropDoes ==
    ASSUME PollsTyped, NEW p \in Polls, NEW k \in Keys, Done(k, p, FALSE), poll[p].at = "apply"
    PROVE  /\ PollsTyped' /\ \A q \in Polls : \A j \in Keys : j # k => SeenAs(j, q)
           /\ poll'[p].plan[k] = "done"
           /\ \A q \in Polls : q # p => SeenAs(k, q)
<1>1. PICK w \in BOOLEAN : w = FALSE
  OBVIOUS
<1>2. Done(k, p, w)
  BY <1>1
<1> QED BY <1>1, <1>2, DoneDoes

LEMMA SkipKeeps == ASSUME IInv, NEW p \in Polls, NEW k \in Keys, Skip(p, k) PROVE IInv'
<1>1. PollsTyped /\ Done(k, p, FALSE) /\ poll[p].at = "apply"
  BY DEF IInv, Skip
<1>2. /\ PollsTyped' /\ \A q \in Polls : \A j \in Keys : j # k => SeenAs(j, q)
      /\ poll'[p].plan[k] = "done"
      /\ \A q \in Polls : q # p => SeenAs(k, q)
  BY <1>1, DropDoes
<1>3. Counted' /\ Stored' /\ NeverAutoRetried'
  BY DEF IInv, Counted, Stored, NeverAutoRetried, Skip, history, bounds
<1>4. ASSUME NEW j \in Keys PROVE ItemInv(j)'
  <2>1. \A q \in Polls : SeenAs(j, q) \/ (poll'[q].plan[j] = "done" /\ poll[q].plan[j] # "put")
    BY <1>2 DEF Skip
  <2>2. Left(j)
    BY <2>1 DEF Left, Skip
  <2>3. Calm(j)
    BY <2>2 DEF Calm, Skip, history, Live, Ended
  <2> QED BY <2>3, CalmKeeps DEF IInv
<1> QED BY <1>2, <1>3, <1>4 DEF IInv

\* What the poll writes from.
LEMMA ItemTyped ==
    ASSUME IInv, NEW p \in Polls, NEW k \in Keys
    PROVE  /\ item[k] \in ItemStates /\ poll[p].found[k] \in 0..MaxPrint
           /\ item[k].tried \in BOOLEAN /\ item[k].task \in Tasks \union {None}
<1>1. item[k] \in ItemStates
  BY DEF IInv, Stored
<1>2. poll[p] \in PollStates
  BY DEF IInv, PollsTyped
<1>3. poll[p].found[k] \in 0..MaxPrint
  BY <1>2 DEF PollStates
<1> QED BY <1>1, <1>3 DEF ItemStates

LEMMA ApplyKeeps == ASSUME IInv, NEW p \in Polls, NEW k \in Keys, Apply(p, k) PROVE IInv'
<1> DEFINE prev == item[k]
           fp == poll[p].found[k]
<1>1. /\ half[k] = None /\ half' = half /\ Unchanged(p, k)
      /\ UNCHANGED <<task, retried>>
      /\ poll[p].at = "apply"
  BY DEF Apply, Unheld, Plans
<1>2. Counted' /\ loose \subseteq loose'
  BY DEF IInv, Counted, Apply, Lost, bounds
<1>3. prev \in ItemStates /\ fp \in 0..MaxPrint /\ prev.tried \in BOOLEAN /\ prev.task \in Tasks \union {None}
  BY ItemTyped
<1>4. \A what \in Decisions : Plans(p, k, what) => Acting(p, k, {what})
  BY <1>1 DEF Plans, Acting
<1>5. Held(k) /\ (k \notin loose' => Known(k) /\ k \notin loose)
  BY <1>2 DEF IInv, ItemInv
<1>6. Links(k, prev)
  BY DEF IInv, Stored, Links
<1>7. CASE Plans(p, k, "propose") /\ Propose(p, k, None, prev.tried)
  <2> DEFINE i == [state |-> "proposed", fp |-> fp, task |-> None, tried |-> prev.tried]
  <2>1. i \in ItemStates /\ Write(p, k, i) /\ i.tried = item[k].tried /\ i.state \notin Linked
    <3>1. "proposed" \in States \ Linked /\ None \in Tasks \union {None} /\ Write(p, k, i)
      BY <1>7 DEF States, Linked, Propose
    <3> QED BY <1>3, <3>1 DEF ItemStates
  <2> HIDE DEF i
  <2>2. k \notin loose' => Over(k) /\ Fixed(k)
    BY <1>1, <1>5, <1>7 DEF Known, Plans, Acting
  <2>3. k \notin loose' => Tells(k, i)
    BY <1>1, <1>5, <2>1, <2>2, FreeTells
  <2> QED BY <1>1, <1>2, <2>1, <2>3, WriteKeeps DEF Links
<1>8. CASE Plans(p, k, "again") /\ Propose(p, k, None, TRUE)
  <2> DEFINE i == [state |-> "proposed", fp |-> fp, task |-> None, tried |-> TRUE]
  <2>1. i \in ItemStates /\ Write(p, k, i) /\ i.tried = TRUE /\ i.state \notin Linked
    <3>1. "proposed" \in States \ Linked /\ None \in Tasks \union {None} /\ Write(p, k, i)
      BY <1>8 DEF States, Linked, Propose
    <3> QED BY <1>3, <3>1 DEF ItemStates
  <2> HIDE DEF i
  <2>2. k \notin loose' => Over(k)
    BY <1>1, <1>5, <1>8 DEF Known, Plans, Acting
  <2>3. k \notin loose' => Tells(k, i)
    <3>1. \A t \in Tasks : half[k] # t
      BY <1>1, ConstantsAssumption DEF ConstantsAssumption
    <3> QED BY <2>1, <2>2, <3>1 DEF Tells, Over, Of
  <2> QED BY <1>1, <1>2, <2>1, <2>3, WriteKeeps DEF Links
<1>9. CASE Plans(p, k, "wait") /\ Write(p, k, [prev EXCEPT !.state = "awaiting_rescan", !.fp = fp])
  <2> DEFINE i == [prev EXCEPT !.state = "awaiting_rescan", !.fp = fp]
  <2>1. i \in ItemStates /\ i.task = prev.task /\ i.tried = prev.tried /\ i.state = "awaiting_rescan"
    BY <1>3 DEF States, ItemStates
  <2>2. Write(p, k, i) /\ "awaiting_rescan" \in Linked
    BY <1>9 DEF Linked
  <2> HIDE DEF i
  <2>3. prev.state \in Linked
    BY <1>1, <1>5, <1>9 DEF Held, Plans, Acting
  <2>4. k \notin loose' => Over(k) /\ EndedIsTold(k)
    BY <1>1, <1>5, <1>9 DEF Known, Plans, Acting
  <2>5. \A t \in Tasks : half[k] # t
    BY <1>1, ConstantsAssumption DEF ConstantsAssumption
  <2>6. k \notin loose' => Tells(k, i)
    BY <2>2, <2>1, <2>4, <2>5 DEF Tells, Over, EndedIsTold, Of
  <2>7. Links(k, i)
    BY <1>6, <2>1, <2>3 DEF Links
  <2> QED BY <1>1, <1>2, <2>2, <2>1, <2>6, <2>7, WriteKeeps
<1>10. CASE Plans(p, k, "keep") /\ Write(p, k, [prev EXCEPT !.fp = fp])
  <2> DEFINE i == [prev EXCEPT !.fp = fp]
  <2>1. i \in ItemStates /\ Write(p, k, i) /\ i.task = prev.task /\ i.tried = prev.tried /\ i.state = prev.state
    BY <1>3, <1>10, ItemTyped DEF ItemStates
  <2> HIDE DEF i
  <2>2. \A t \in Tasks : half[k] # t
    BY <1>1, ConstantsAssumption DEF ConstantsAssumption
  <2>3. k \notin loose' => Tells(k, i)
    BY <1>5, <2>1, <2>2 DEF Known, Tells, LiveIsLinked, EndedIsTold, Of
  <2>4. Links(k, i)
    BY <1>6, <2>1 DEF Links
  <2> QED BY <1>1, <1>2, <2>1, <2>3, <2>4, WriteKeeps
<1>11. CASE Plans(p, k, "resolve") /\ Write(p, k, [prev EXCEPT !.state = "resolved"])
  <2> DEFINE i == [prev EXCEPT !.state = "resolved"]
  <2>1. i \in ItemStates /\ i.task = prev.task /\ i.tried = prev.tried /\ i.state \notin Linked
    BY <1>3 DEF ItemStates, States, Linked
  <2>2. Write(p, k, i)
    BY <1>11
  <2> HIDE DEF i
  <2>3. \A t \in Tasks : half[k] # t
    BY <1>1, ConstantsAssumption DEF ConstantsAssumption
  <2>4. k \notin loose' => prev.task = None /\ \A t \in Tasks : ~(task[t].key = k /\ Live(t))
    BY <1>11 DEF Apply, Lost
  <2>5. \A t \in Tasks : t # None
    BY ConstantsAssumption DEF ConstantsAssumption
  <2>6. k \notin loose' => Tells(k, i)
    BY <1>5, <2>1, <2>3, <2>4, <2>5 DEF Known, Tells, EndedIsTold, Of
  <2> QED BY <1>1, <1>2, <2>2, <2>1, <2>6, WriteKeeps DEF Links
<1> QED BY <1>7, <1>8, <1>9, <1>10, <1>11 DEF Apply

LEMMA AutoStartFailsKeeps ==
    ASSUME IInv, NEW p \in Polls, NEW k \in Keys, AutoStartFails(p, k) PROVE IInv'
<1> DEFINE i == [state |-> "proposed", fp |-> poll[p].found[k], task |-> None, tried |-> item[k].tried]
<1>1. i \in ItemStates /\ Write(p, k, i) /\ i.tried = item[k].tried /\ i.state \notin Linked
  <2>1. "proposed" \in States \ Linked /\ None \in Tasks \union {None} /\ Write(p, k, i)
    BY DEF States, Linked, AutoStartFails, Propose
  <2> QED BY <2>1, ItemTyped DEF ItemStates
<1> HIDE DEF i
<1>2. /\ half[k] = None /\ half' = half /\ UNCHANGED <<task, retried>> /\ loose' = loose
      /\ poll[p].at = "apply" /\ Acting(p, k, {"create", "propose"})
      /\ Acting(p, k, {"create", "propose", "wait", "again"})
  BY DEF AutoStartFails, Plans, Acting, Unheld, history
<1>3. Counted'
  BY ConstantsAssumption
     DEF ConstantsAssumption, IInv, Counted, AutoStartFails, Faults, history
<1>4. k \notin loose => Over(k) /\ Fixed(k)
  BY <1>2 DEF IInv, ItemInv, Known
<1>5. k \notin loose => Tells(k, i)
  BY <1>1, <1>2, <1>4, FreeTells
<1> QED BY <1>1, <1>2, <1>3, <1>5, WriteKeeps DEF Links

LEMMA PutAsideKeeps == ASSUME IInv, NEW k \in Keys, PutAside(k) PROVE IInv'
<1>1. PICK to \in {"dismissed", "snoozed"} : Put(k, [item[k] EXCEPT !.state = to])
  BY DEF PutAside
<1> DEFINE i == [item[k] EXCEPT !.state = to]
<1>2. item[k] \in ItemStates
  BY DEF IInv, Stored
<1>3. i \in ItemStates /\ Put(k, i) /\ i.task = item[k].task /\ i.tried = item[k].tried /\ i.state \notin Linked
  BY <1>1, <1>2 DEF ItemStates, States, Linked
<1> HIDE DEF i
<1>4. half[k] = None /\ half' = half /\ UNCHANGED <<task, retried>>
  BY DEF PutAside, Unheld
<1>5. Counted' /\ loose \subseteq loose'
  BY ConstantsAssumption DEF ConstantsAssumption, IInv, Counted, PutAside, Lost, Acts
<1>6. \A q \in Polls : poll[q].plan[k] # "put"
  BY <1>4 DEF IInv, ItemInv, Held
<1>7. ASSUME k \notin loose' PROVE Tells(k, i)
  <2>1. item[k].task = None /\ LiveIsLinked(k) /\ EndedIsTold(k)
    BY <1>5, <1>7 DEF PutAside, Lost, IInv, ItemInv, Known
  <2>2. \A t \in Tasks : t # None /\ half[k] # t
    BY <1>4, ConstantsAssumption DEF ConstantsAssumption
  <2> QED BY <1>3, <2>1, <2>2 DEF Tells, LiveIsLinked, EndedIsTold, Of
<1> QED BY <1>3, <1>4, <1>5, <1>6, <1>7, PutKeeps DEF Links

\* The task that an item's lock was held for, written into it.
LEMMA HolderTells ==
    ASSUME IInv, NEW k \in Keys, half[k] # None, NEW i, i.task = half[k],
           i.state = "task_created", i.tried = item[k].tried
    PROVE  Links(k, i) /\ (k \notin loose => Tells(k, i)) /\ half[k] \in Tasks
<1>1. half[k] \in Tasks /\ task[half[k]].key = k /\ task[half[k]].st # "none"
  BY DEF IInv, Stored
<1>2. Links(k, i)
  BY <1>1 DEF Links
<1>3. ASSUME k \notin loose PROVE Tells(k, i)
  <2>1. Over(k) /\ Fixed(k)
    BY <1>3 DEF IInv, ItemInv, Known
  <2> QED BY <2>1 DEF Tells, Over, Fixed, Of, Linked
<1> QED BY <1>1, <1>2, <1>3

LEMMA PutApprovedKeeps == ASSUME IInv, NEW k \in Keys, PutApproved(k) PROVE IInv'
<1> DEFINE i == [item[k] EXCEPT !.state = "task_created", !.task = half[k]]
<1>1. /\ half[k] # None /\ half' = [half EXCEPT ![k] = None]
      /\ \A q \in Polls : poll[q].plan[k] # "put"
      /\ UNCHANGED <<task, retried>> /\ loose' = loose /\ Put(k, i)
  BY DEF PutApproved, Approving, history
<1>2. item[k] \in ItemStates /\ half[k] \in Tasks \union {None}
  BY DEF IInv, Stored
<1>3. i \in ItemStates /\ i.task = half[k] /\ i.state = "task_created" /\ i.tried = item[k].tried
  BY <1>2 DEF ItemStates, States
<1> HIDE DEF i
<1>4. Counted'
  BY DEF IInv, Counted, PutApproved, history, bounds
<1> QED BY <1>1, <1>3, <1>4, HolderTells, PutKeeps

LEMMA PutStartedKeeps ==
    ASSUME IInv, NEW p \in Polls, NEW k \in Keys, PutStarted(p, k) PROVE IInv'
<1>1. /\ poll[p].at = "apply" /\ poll[p].plan[k] = "put" /\ half' = [half EXCEPT ![k] = None]
      /\ UNCHANGED <<task, retried>>
  BY DEF PutStarted, Plans
<1>2. half[k] # None
  BY <1>1 DEF IInv, ItemInv, Held
<1>3. Counted' /\ loose \subseteq loose'
  BY ConstantsAssumption DEF ConstantsAssumption, IInv, Counted, PutStarted, Faults, Lost
<1>4. half[k] \in Tasks \union {None}
  BY DEF IInv, Stored
<1>5. CASE Write(p, k, [state |-> "task_created", fp |-> poll[p].found[k],
                        task |-> half[k], tried |-> item[k].tried]) /\ loose' = loose
  <2> DEFINE i == [state |-> "task_created", fp |-> poll[p].found[k],
                   task |-> half[k], tried |-> item[k].tried]
  <2>1. /\ i \in ItemStates /\ Write(p, k, i) /\ i.task = half[k] /\ i.state = "task_created"
        /\ i.tried = item[k].tried
    <3>1. "task_created" \in States /\ Write(p, k, i)
      BY <1>5 DEF States
    <3> QED BY <1>4, <3>1, ItemTyped DEF ItemStates
  <2> HIDE DEF i
  <2>2. Links(k, i) /\ (k \notin loose => Tells(k, i))
    BY <1>2, <2>1, HolderTells
  <2> QED BY <1>1, <1>3, <1>5, <2>1, <2>2, WriteKeeps
<1>6. CASE Lost(k) /\ Propose(p, k, half[k], item[k].tried)
  <2> DEFINE i == [state |-> "proposed", fp |-> poll[p].found[k],
                   task |-> half[k], tried |-> item[k].tried]
  <2>1. i \in ItemStates /\ Write(p, k, i) /\ i.state \notin Linked
    <3>1. "proposed" \in States \ Linked /\ Write(p, k, i)
      BY <1>6 DEF States, Linked, Propose
    <3> QED BY <1>4, <3>1, ItemTyped DEF ItemStates
  <2> HIDE DEF i
  <2>2. k \in loose'
    BY <1>6 DEF Lost
  <2> QED BY <1>1, <1>3, <2>1, <2>2, WriteKeeps DEF Links
<1> QED BY <1>5, <1>6 DEF PutStarted

-----------------------------------------------------------------------------
(* A task is created for an item, and what becomes of its lock *)

LEMMA CreatesDoes ==
    ASSUME IInv, NEW t \in Tasks, NEW k \in Keys, Creates(t, k), UNCHANGED item
    PROVE  /\ Stored' /\ half'[k] = t /\ half'[k] # None
           /\ \A j \in Keys : j # k => half'[j] = half[j]
           /\ \A u \in Tasks : /\ u # t => task'[u] = task[u]
                               /\ Ended(u)' => Ended(u)
                               /\ \A j \in Keys : task'[u].key = j /\ j # k => task'[u] = task[u]
           /\ half[k] = None => (Over(k) => Over(k)') /\ (Fixed(k) => Fixed(k)')
<1>1. /\ task \in [Tasks -> TaskStates] /\ half \in [Keys -> Tasks \union {None}]
      /\ task[t].st = "none" /\ task' = [task EXCEPT ![t] = [key |-> k, st |-> "bare"]]
      /\ half' = [half EXCEPT ![k] = t] /\ t # None /\ \A u \in Tasks : u # None
  BY ConstantsAssumption DEF ConstantsAssumption, IInv, Stored, Creates
<1>2. /\ task'[t] = [key |-> k, st |-> "bare"] /\ [key |-> k, st |-> "bare"] \in TaskStates
      /\ \A u \in Tasks : u # t => task'[u] = task[u]
      /\ half'[k] = t /\ \A j \in Keys : j # k => half'[j] = half[j]
  BY <1>1 DEF TaskStates, Statuses
<1>3. task' \in [Tasks -> TaskStates] /\ half' \in [Keys -> Tasks \union {None}]
  BY <1>1, <1>2
<1>4. task'[t].key = k /\ task'[t].st = "bare"
  BY <1>2
<1>5. Stored'
  <2>1. \A j \in Keys : half'[j] # None => task'[half'[j]].key = j /\ task'[half'[j]].st # "none"
    <3> SUFFICES ASSUME NEW j \in Keys, half'[j] # None, j # k
                 PROVE  task'[half'[j]].key = j /\ task'[half'[j]].st # "none"
      BY <1>2, <1>4
    <3>1. PICK u \in Tasks : u = half[j]
      BY <1>1, <1>2
    <3>2. task[u].key = j /\ task[u].st # "none"
      BY <1>2, <3>1 DEF IInv, Stored
    <3>3. u # t
      BY <1>1, <3>2
    <3> QED BY <1>2, <3>1, <3>2, <3>3
  <2>2. \A j \in Keys : item'[j].state \in Linked =>
           /\ item'[j].task \in Tasks
           /\ task'[item'[j].task].key = j /\ task'[item'[j].task].st # "none"
    <3> SUFFICES ASSUME NEW j \in Keys, item[j].state \in Linked
                 PROVE  /\ item[j].task \in Tasks
                        /\ task'[item[j].task].key = j /\ task'[item[j].task].st # "none"
      OBVIOUS
    <3>1. PICK u \in Tasks : u = item[j].task /\ task[u].key = j /\ task[u].st # "none"
      BY DEF IInv, Stored
    <3>2. u # t
      BY <1>1, <3>1
    <3> QED BY <1>2, <3>1, <3>2
  <2>3. \A u \in Tasks : task'[u].st # "none" => task'[u].key \in Keys
    BY <1>2, <1>4 DEF IInv, Stored
  <2> QED BY <1>3, <2>1, <2>2, <2>3 DEF IInv, Stored
<1>6. \A u \in Tasks : Ended(u)' => Ended(u)
  BY <1>2, <1>4 DEF Ended, Finished
<1>7. ASSUME half[k] = None PROVE (Over(k) => Over(k)') /\ (Fixed(k) => Fixed(k)')
  <2>1. \A u \in Tasks : Of(u, k)' => u # t /\ Of(u, k) /\ (Live(u)' <=> Live(u)) /\ (Ended(u)' <=> Ended(u))
    BY <1>1, <1>2, <1>7 DEF Of, Live, Ended
  <2> QED BY <2>1 DEF Over, Fixed
<1> QED BY <1>1, <1>2, <1>4, <1>5, <1>6, <1>7

\* Another item sees nothing of it.
LEMMA CreatesCalm ==
    ASSUME IInv, NEW t \in Tasks, NEW k \in Keys, Creates(t, k), UNCHANGED item,
           NEW j \in Keys, j # k, \A q \in Polls : SeenAs(j, q), UNCHANGED loose
    PROVE  ItemInv(j)'
<1>1. Left(j)
  BY CreatesDoes DEF Left
<1>2. Calm(j)
  BY <1>1, CreatesDoes DEF Calm, Live, Ended
<1> QED BY <1>2, CalmKeeps DEF IInv

LEMMA AutoStartKeeps ==
    ASSUME IInv, NEW p \in Polls, NEW k \in Keys, AutoStart(p, k) PROVE IInv'
<1>1. PICK t \in Tasks : Creates(t, k)
  BY DEF AutoStart
<1>2. /\ half[k] = None /\ UNCHANGED <<item, loose>> /\ Acting(p, k, {"create"})
      /\ poll[p].at = "apply" /\ poll' = [poll EXCEPT ![p].plan[k] = "put"]
  BY DEF AutoStart, Unheld, Plans, Acting
<1>3. \A q \in Polls : poll[q].plan[k] # "put"
  BY <1>2 DEF IInv, ItemInv, Held
<1>4. poll \in [Polls -> PollStates] /\ poll[p] \in PollStates
  BY DEF IInv, PollsTyped
<1>5. [poll[p].plan EXCEPT ![k] = "put"] \in [Keys -> Decisions]
  BY <1>4 DEF PollStates, Decisions
<1>6. /\ poll'[p] = [poll[p] EXCEPT !.plan = [poll[p].plan EXCEPT ![k] = "put"]]
      /\ \A q \in Polls : q # p => poll'[q] = poll[q]
  BY <1>2, <1>4
<1>7. /\ poll'[p] \in PollStates /\ poll'[p].at = "apply" /\ poll'[p].found = poll[p].found
      /\ poll'[p].touched = poll[p].touched
      /\ poll'[p].plan = [poll[p].plan EXCEPT ![k] = "put"]
  BY <1>2, <1>4, <1>5, <1>6 DEF PollStates
<1>8. /\ poll'[p].plan[k] = "put"
      /\ \A j \in Keys : j # k => poll'[p].plan[j] = poll[p].plan[j]
  BY <1>4, <1>7 DEF PollStates
<1>9. PollsTyped'
  <2>1. poll' \in [Polls -> PollStates]
    BY <1>2, <1>4, <1>6, <1>7
  <2>2. ASSUME NEW q \in Polls, poll'[q].at # "apply"
        PROVE  \A j \in Keys : poll'[q].plan[j] = "done"
    <3>1. q # p /\ poll'[q] = poll[q]
      BY <1>6, <1>7, <2>2
    <3> QED BY <2>2, <3>1 DEF IInv, PollsTyped
  <2> QED BY <2>1, <2>2 DEF PollsTyped
<1>10. \A q \in Polls : /\ \A j \in Keys : j # k => SeenAs(j, q)
                        /\ q # p => SeenAs(k, q)
  BY <1>6, <1>7, <1>8 DEF SeenAs, Unchanged
<1>11. Stored' /\ half'[k] = t /\ half'[k] # None
  BY <1>1, <1>2, CreatesDoes
<1>12. k \notin loose => Over(k) /\ Fixed(k)
  BY <1>2 DEF Acting, IInv, ItemInv, Known
<1>13. Counted' /\ NeverAutoRetried'
  <2>1. ASSUME NEW u \in Tasks, task[u].key = k, Ended(u) PROVE k \in loose
    <3>1. ~item[k].tried
      BY <1>2 DEF IInv, ItemInv, Held
    <3>2. Of(u, k)
      BY <1>2, <2>1, ConstantsAssumption DEF ConstantsAssumption, Of
    <3> QED BY <1>12, <2>1, <3>1, <3>2 DEF Fixed
  <2>2. \/ retried' = retried
        \/ retried' = retried \union {k} /\ k \in loose
    BY <2>1 DEF AutoStart, Ended
  <2> QED BY <1>2, <2>2 DEF IInv, Counted, NeverAutoRetried, AutoStart, bounds
<1>14. Held(k)'
  <2>1. \A q \in Polls : poll'[q].plan[k] = "put" <=> q = p
    BY <1>3, <1>6, <1>8
  <2>2. /\ ~Acting(p, k, {"wait", "again"})' /\ ~Acting(p, k, {"create"})'
        /\ ~Acting(p, k, {"create", "propose"})'
    BY <1>8 DEF Acting
  <2>3. \A q \in Polls : q # p =>
          /\ Acting(q, k, {"wait", "again"})' <=> Acting(q, k, {"wait", "again"})
          /\ Acting(q, k, {"create"})' <=> Acting(q, k, {"create"})
          /\ Acting(q, k, {"create", "propose"})' <=> Acting(q, k, {"create", "propose"})
          /\ poll'[q].found[k] = poll[q].found[k]
    BY <1>10 DEF Acting, SeenAs
  <2>4. item[k].state = "dismissed" => poll'[p].found[k] # item[k].fp
    <3>1. Acting(p, k, {"create", "propose"})
      BY <1>2 DEF Acting
    <3> QED BY <1>7, <3>1 DEF IInv, ItemInv, Held
  <2>5. Held(k)
    BY DEF IInv, ItemInv
  <2>6. \A q \in Polls :
           /\ Acting(q, k, {"wait", "again"})' => item'[k].state \in Linked
           /\ Acting(q, k, {"create"})' => ~item'[k].tried
           /\ Acting(q, k, {"create", "propose"})' \/ poll'[q].plan[k] = "put"
                  => (item'[k].state = "dismissed" => poll'[q].found[k] # item'[k].fp)
    BY <1>2, <2>1, <2>2, <2>3, <2>4, <2>5 DEF Held
  <2> QED BY <1>11, <2>1, <2>6 DEF Held
<1>15. k \notin loose' => Known(k)'
  <2>1. k \notin loose' => Over(k)' /\ Fixed(k)'
    BY <1>1, <1>2, <1>12, CreatesDoes
  <2> QED BY <2>1 DEF Known, Over, Fixed, LiveIsLinked, EndedIsTold
<1>16. ASSUME NEW j \in Keys PROVE ItemInv(j)'
  <2>1. CASE j = k
    BY <1>14, <1>15, <2>1 DEF ItemInv
  <2>2. CASE j # k
    BY <1>1, <1>2, <1>10, <2>2, CreatesCalm
  <2> QED BY <2>1, <2>2
<1> QED BY <1>9, <1>11, <1>13, <1>16 DEF IInv

LEMMA ApproveKeeps == ASSUME IInv, NEW k \in Keys, Approve(k) PROVE IInv'
<1>1. PICK t \in Tasks : Creates(t, k)
  BY DEF Approve
<1>2. /\ half[k] = None /\ UNCHANGED <<item, loose, poll, retried>>
      /\ item[k].state \in {"proposed", "snoozed"}
  BY DEF Approve, Unheld, history
<1>3. Counted' /\ NeverAutoRetried' /\ PollsTyped'
  BY <1>2 DEF IInv, Counted, NeverAutoRetried, PollsTyped, Approve, history, bounds
<1>4. \A q \in Polls : \A j \in Keys : SeenAs(j, q)
  BY <1>2 DEF SeenAs, Unchanged
<1>5. Stored' /\ half'[k] # None
  BY <1>1, <1>2, CreatesDoes
<1>6. \A q \in Polls : poll[q].plan[k] # "put"
  BY <1>2 DEF IInv, ItemInv, Held
<1>7. Held(k)'
  <2>1. \A q \in Polls :
          /\ Acting(q, k, {"wait", "again"})' <=> Acting(q, k, {"wait", "again"})
          /\ Acting(q, k, {"create"})' <=> Acting(q, k, {"create"})
          /\ Acting(q, k, {"create", "propose"})' <=> Acting(q, k, {"create", "propose"})
    BY <1>4 DEF Acting, SeenAs
  <2> QED BY <1>2, <1>5, <1>6, <2>1 DEF IInv, ItemInv, Held
<1>8. ASSUME k \notin loose' PROVE Known(k)'
  <2>1. Over(k) /\ Fixed(k)
    BY <1>2, <1>8 DEF IInv, ItemInv, Known, LiveIsLinked, EndedIsTold, Over, Fixed, Linked
  <2>2. Over(k)' /\ Fixed(k)'
    BY <1>1, <1>2, <2>1, CreatesDoes
  <2> QED BY <2>2 DEF Known, Over, Fixed, LiveIsLinked, EndedIsTold
<1>9. ASSUME NEW j \in Keys PROVE ItemInv(j)'
  <2>1. CASE j = k
    BY <1>7, <1>8, <2>1 DEF ItemInv
  <2>2. CASE j # k
    BY <1>1, <1>2, <1>4, <2>2, CreatesCalm
  <2> QED BY <2>1, <2>2
<1> QED BY <1>3, <1>5, <1>9 DEF IInv

LEMMA ApproveFailsKeeps == ASSUME IInv, NEW k \in Keys, ApproveFails(k) PROVE IInv'
<1>1. /\ half' = [half EXCEPT ![k] = None] /\ UNCHANGED <<item, task, poll, retried>>
      /\ loose' = loose \union {k} /\ \A q \in Polls : poll[q].plan[k] # "put"
  BY DEF ApproveFails, Approving, Lost
<1>2. half \in [Keys -> Tasks \union {None}]
  BY DEF IInv, Stored
<1>3. /\ half' \in [Keys -> Tasks \union {None}] /\ half'[k] = None
      /\ \A j \in Keys : j # k => half'[j] = half[j]
  BY <1>1, <1>2
<1>4. Counted' /\ NeverAutoRetried' /\ PollsTyped'
  BY <1>1, ConstantsAssumption
     DEF ConstantsAssumption, IInv, Counted, NeverAutoRetried, PollsTyped, ApproveFails, Faults
<1>5. Stored'
  BY <1>1, <1>3 DEF IInv, Stored
<1>6. \A q \in Polls : \A j \in Keys : SeenAs(j, q)
  BY <1>1 DEF SeenAs, Unchanged
<1>7. Held(k)'
  <2>1. \A q \in Polls :
          /\ Acting(q, k, {"wait", "again"})' <=> Acting(q, k, {"wait", "again"})
          /\ Acting(q, k, {"create"})' <=> Acting(q, k, {"create"})
          /\ Acting(q, k, {"create", "propose"})' <=> Acting(q, k, {"create", "propose"})
    BY <1>6 DEF Acting, SeenAs
  <2> QED BY <1>1, <1>3, <2>1 DEF IInv, ItemInv, Held
<1>8. ASSUME NEW j \in Keys PROVE ItemInv(j)'
  <2>1. CASE j = k
    BY <1>1, <1>7, <2>1 DEF ItemInv
  <2>2. CASE j # k
    <3>1. Left(j)
      BY <1>1, <1>3, <1>6, <2>2 DEF Left
    <3>2. Calm(j)
      BY <1>1, <3>1 DEF Calm, Live, Ended
    <3> QED BY <3>2, CalmKeeps DEF IInv
  <2> QED BY <2>1, <2>2
<1> QED BY <1>4, <1>5, <1>8 DEF IInv

LEMMA PollFailsKeeps == ASSUME IInv, NEW p \in Polls, PollFails(p) PROVE IInv'
<1> DEFINE Cut(k) == poll[p].at = "apply" /\ poll[p].plan[k] = "put"
<1>1. /\ Goes(p, Idle) /\ UNCHANGED <<item, task, retried>>
      /\ half' = [k \in Keys |-> IF Cut(k) THEN None ELSE half[k]]
      /\ loose' = loose \union {k \in Keys : Cut(k)}
  BY DEF PollFails, Plans
<1>2. \A k \in Keys : Cut(k) <=> poll[p].plan[k] = "put"
  BY DEF IInv, PollsTyped
<1> HIDE DEF Cut
<1>3. PollsTyped /\ half \in [Keys -> Tasks \union {None}]
  BY DEF IInv, Stored
<1>4. /\ PollsTyped' /\ poll'[p] = Idle /\ \A q \in Polls : q # p => poll'[q] = poll[q]
      /\ \A q \in Polls : q # p => \A k \in Keys : SeenAs(k, q)
  BY <1>1, <1>3, GoesDoes, IdleTyped
<1>5. half' \in [Keys -> Tasks \union {None}] /\ \A k \in Keys : half'[k] \in {half[k], None}
  BY <1>1, <1>3
<1>6. Counted' /\ NeverAutoRetried'
  BY <1>1, ConstantsAssumption
     DEF ConstantsAssumption, IInv, Counted, NeverAutoRetried, PollFails, Faults
<1>7. Stored'
  BY <1>1, <1>5 DEF IInv, Stored
<1>8. ASSUME NEW k \in Keys PROVE ItemInv(k)'
  <2>1. Held(k)
    BY <1>8 DEF IInv, ItemInv
  <2>2. CASE ~Cut(k)
    <3>1. half'[k] = half[k]
      BY <1>1, <2>2
    <3>2. \A q \in Polls : SeenAs(k, q) \/ (poll'[q].plan[k] = "done" /\ poll[q].plan[k] # "put")
      BY <1>2, <1>4, <2>2, IdleTyped
    <3>3. Left(k)
      BY <1>1, <3>1, <3>2 DEF Left
    <3>4. Calm(k)
      BY <1>1, <3>3 DEF Calm, Live, Ended
    <3> QED BY <3>4, CalmKeeps DEF IInv
  <2>3. CASE Cut(k)
    <3>1. half'[k] = None /\ k \in loose'
      BY <1>1, <2>3
    <3>2. \A q \in Polls : poll'[q].plan[k] # "put"
      <4>1. \A q \in Polls : q # p => poll[q].plan[k] # "put"
        BY <1>2, <2>1, <2>3 DEF Held
      <4> QED BY <1>4, <4>1, IdleTyped
    <3>3. \A q \in Polls : \A what \in Deeds : Acting(q, k, what)' => q # p /\ Acting(q, k, what)
      BY <1>4, IdleTyped DEF Acting, SeenAs, Deeds
    <3>4. \A q \in Polls : Acting(q, k, {"create", "propose"})' => poll'[q].found[k] = poll[q].found[k]
      BY <1>4, <3>3, DeedSets
    <3> QED BY <1>1, <2>1, <3>1, <3>2, <3>3, <3>4, DeedSets DEF Held, ItemInv
  <2> QED BY <2>2, <2>3
<1> QED BY <1>4, <1>6, <1>7, <1>8 DEF IInv

LEMMA RestartKeeps == ASSUME IInv, Restart PROVE IInv'
<1>1. /\ poll' = [p \in Polls |-> Idle] /\ half' = [k \in Keys |-> None]
      /\ loose' = loose \union {k \in Keys : half[k] # None} /\ UNCHANGED <<gh, item, retried, events, ops>>
      /\ task' = [t \in Tasks |-> IF task[t].st = "bare" THEN [task[t] EXCEPT !.st = "ended"] ELSE task[t]]
  BY DEF Restart
<1>2. Counted' /\ NeverAutoRetried'
  BY <1>1, ConstantsAssumption
     DEF ConstantsAssumption, IInv, Counted, NeverAutoRetried, Restart, Faults
<1>3. PollsTyped'
  BY <1>1, IdleTyped DEF PollsTyped
<1>4. ASSUME NEW t \in Tasks
      PROVE  /\ task'[t] \in TaskStates /\ task'[t].key = task[t].key
             /\ task'[t].st = IF task[t].st = "bare" THEN "ended" ELSE task[t].st
  <2>1. task[t] \in TaskStates
    BY <1>4 DEF IInv, Stored
  <2>2. task'[t] = IF task[t].st = "bare" THEN [task[t] EXCEPT !.st = "ended"] ELSE task[t]
    BY <1>1, <1>4
  <2>3. CASE task[t].st = "bare"
    <3>1. task'[t] = [task[t] EXCEPT !.st = "ended"]
      BY <2>2, <2>3
    <3> QED BY <2>1, <2>3, <3>1 DEF TaskStates, Statuses
  <2>4. CASE task[t].st # "bare"
    BY <2>1, <2>2, <2>4
  <2> QED BY <2>3, <2>4
<1>5. Stored'
  <2>1. task' \in [Tasks -> TaskStates] /\ half' \in [Keys -> Tasks \union {None}]
    BY <1>1, <1>4
  <2>2. \A t \in Tasks : task'[t].key = task[t].key /\ (task'[t].st = "none" <=> task[t].st = "none")
    BY <1>4
  <2>3. \A k \in Keys : half'[k] = None
    BY <1>1
  <2>4. \A k \in Keys : item[k].state \in Linked =>
           /\ item[k].task \in Tasks
           /\ task'[item[k].task].key = k /\ task'[item[k].task].st # "none"
    BY <2>2 DEF IInv, Stored
  <2> QED BY <1>1, <2>1, <2>2, <2>3, <2>4 DEF IInv, Stored
<1>6. \A k \in Keys : half'[k] = None /\ \A p \in Polls : poll'[p].plan[k] = "done"
  BY <1>1, IdleTyped
<1>7. ASSUME NEW k \in Keys PROVE ItemInv(k)'
  <2>1. CASE half[k] # None
    <3>1. Settled(k)' /\ k \in loose'
      BY <1>1, <1>6, <2>1 DEF Settled
    <3> QED BY <3>1, SettledHolds
  <2>2. CASE half[k] = None
    <3>1. \A p \in Polls : poll[p].plan[k] # "put"
      BY <2>2 DEF IInv, ItemInv, Held
    <3>2. Left(k)
      BY <1>1, <1>6, <2>2, <3>1 DEF Left
    <3>3. \A t \in Tasks : (Live(t)' => Live(t)) /\ (Ended(t)' => Ended(t))
      BY <1>4 DEF Live, Ended, Finished
    <3>4. Calm(k)
      BY <1>1, <1>4, <3>2, <3>3 DEF Calm
    <3> QED BY <3>4, CalmKeeps DEF IInv
  <2> QED BY <2>1, <2>2
<1> QED BY <1>2, <1>3, <1>5, <1>7 DEF IInv

-----------------------------------------------------------------------------
(* A poll decides *)

Verdicts == {"done", "resolve", "again", "wait", "propose", "keep", "start"}

\* What each decision was made of.
LEMMA VerdictSays ==
    ASSUME NEW p \in Polls, NEW k \in Keys, NEW expired, NEW v, v = Verdict(p, k, expired)
    PROVE  /\ v \in Verdicts
           /\ v \in {"wait", "again"} => Afterwards(item[k])
           /\ v \in {"propose", "start"} =>
                /\ ~Afterwards(item[k])
                /\ item[k].state = "dismissed" => item[k].fp # poll[p].found[k]
                /\ item[k].state = "task_created" => ~Worked(item[k])
  BY DEF Verdict, Verdicts

LEMMA DecideKeeps == ASSUME IInv, NEW p \in Polls, Decide(p) PROVE IInv'
<1>1. PICK auto \in SUBSET Keys, expired \in SUBSET {k \in Keys : item[k].state = "snoozed"} :
        LET verdict == [k \in Keys |-> IF Unchanged(p, k) THEN Verdict(p, k, expired) ELSE "done"]
            able == {k \in Keys : verdict[k] = "start" /\ MayStart(k, auto)} IN
        \E first \in SUBSET able :
            Goes(p, [Idle EXCEPT
                  !.at = "apply",
                  !.found = [k \in Keys |-> IF verdict[k] = "done" THEN 0 ELSE poll[p].found[k]],
                  !.plan = [k \in Keys |-> IF verdict[k] # "start" THEN verdict[k]
                                          ELSE IF k \in first THEN "create" ELSE "propose"]])
  BY DEF Decide
<1> DEFINE verdict == [k \in Keys |-> IF Unchanged(p, k) THEN Verdict(p, k, expired) ELSE "done"]
<1>2. PICK first \in SUBSET {k \in Keys : verdict[k] = "start" /\ MayStart(k, auto)} :
            Goes(p, [Idle EXCEPT
                  !.at = "apply",
                  !.found = [k \in Keys |-> IF verdict[k] = "done" THEN 0 ELSE poll[p].found[k]],
                  !.plan = [k \in Keys |-> IF verdict[k] # "start" THEN verdict[k]
                                          ELSE IF k \in first THEN "create" ELSE "propose"]])
  BY <1>1
<1>3. \A k \in Keys : /\ verdict[k] \in Verdicts
                      /\ verdict[k] # "done" => Unchanged(p, k) /\ verdict[k] = Verdict(p, k, expired)
  <2> SUFFICES ASSUME NEW k \in Keys
               PROVE  /\ verdict[k] \in Verdicts
                      /\ verdict[k] # "done" => Unchanged(p, k) /\ verdict[k] = Verdict(p, k, expired)
    OBVIOUS
  <2>1. verdict[k] = IF Unchanged(p, k) THEN Verdict(p, k, expired) ELSE "done"
    OBVIOUS
  <2>2. Verdict(p, k, expired) \in Verdicts
    BY VerdictSays
  <2> HIDE DEF verdict
  <2> QED BY <2>1, <2>2 DEF Verdicts
<1>4. \A k \in first : verdict[k] = "start" /\ ~item[k].tried
  BY DEF MayStart
<1> HIDE DEF verdict
<1> DEFINE found == [k \in Keys |-> IF verdict[k] = "done" THEN 0 ELSE poll[p].found[k]]
           plan == [k \in Keys |-> IF verdict[k] # "start" THEN verdict[k]
                                   ELSE IF k \in first THEN "create" ELSE "propose"]
           r == [Idle EXCEPT !.at = "apply", !.found = found, !.plan = plan]
<1>5. poll[p] \in PollStates /\ PollsTyped /\ Bare(p)
  BY DEF IInv, PollsTyped, Decide, Bare
<1>6. plan \in [Keys -> Decisions] /\ found \in [Keys -> 0..MaxPrint]
  BY <1>3, <1>5, ConstantsAssumption DEF ConstantsAssumption, PollStates, Verdicts, Decisions
<1>7. \A k \in Keys : /\ plan[k] \in {verdict[k], "create", "propose"}
                      /\ plan[k] # verdict[k] => verdict[k] = "start"
                      /\ plan[k] = "create" => ~item[k].tried
                      /\ verdict[k] # "done" => found[k] = poll[p].found[k]
                      /\ plan[k] # "start"
  BY <1>3, <1>4 DEF Verdicts
<1>8. Goes(p, r)
  BY <1>2
<1> HIDE DEF found, plan
<1>9. r \in PollStates /\ r.at = "apply" /\ r.found = found /\ r.plan = plan
  BY <1>6, IdleTyped DEF PollStates
<1> HIDE DEF r
<1>10. /\ PollsTyped' /\ poll'[p] = r
       /\ \A q \in Polls : q # p => poll'[q] = poll[q]
       /\ \A q \in Polls : q # p => \A k \in Keys : SeenAs(k, q)
  BY <1>5, <1>8, <1>9, GoesDoes
<1>11. /\ UNCHANGED <<item, task, half, retried>>
       /\ loose' = loose \union {k \in Keys : /\ item[k].state = "task_created" /\ Unchanged(p, k)
                                              /\ \E t \in Tasks : item[k].task = t /\ task[t].st = "bare"}
  BY DEF Decide
<1>12. Stored' /\ Counted' /\ NeverAutoRetried'
  BY <1>11 DEF IInv, Stored, Counted, NeverAutoRetried, Decide, bounds
<1>13. ASSUME NEW k \in Keys PROVE ItemInv(k)'
  <2>1. Held(k)
    BY <1>13 DEF IInv, ItemInv
  <2>2. /\ poll'[p].plan[k] = plan[k] /\ poll'[p].found[k] = found[k] /\ plan[k] # "put"
        /\ poll[p].plan[k] # "put"
    BY <1>3, <1>5, <1>7, <1>9, <1>10 DEF Verdicts, Bare
  <2>3. plan[k] \in {"wait", "again"} => Afterwards(item[k]) /\ verdict[k] # "done"
    BY <1>3, <1>7, VerdictSays
  <2>4. plan[k] \in {"create", "propose"} =>
          /\ ~Afterwards(item[k]) /\ Unchanged(p, k)
          /\ item[k].state = "dismissed" => item[k].fp # found[k]
          /\ item[k].state = "task_created" => ~Worked(item[k])
    <3>1. plan[k] \in {"create", "propose"} => verdict[k] \in {"propose", "start"}
      BY <1>3, <1>7 DEF Verdicts
    <3>2. verdict[k] \in {"propose", "start"} => Unchanged(p, k) /\ verdict[k] = Verdict(p, k, expired)
      BY <1>3
    <3>3. verdict[k] \in {"propose", "start"} => found[k] = poll[p].found[k]
      BY <1>7
    <3> QED BY <3>1, <3>2, <3>3, VerdictSays
  <2>5. \A q \in Polls : q # p =>
          /\ poll'[q].plan[k] = poll[q].plan[k] /\ poll'[q].found[k] = poll[q].found[k]
          /\ \A what \in Deeds : Acting(q, k, what)' <=> Acting(q, k, what)
    BY <1>10 DEF Acting, SeenAs
  <2>6. \A what \in Deeds : Acting(p, k, what)' => plan[k] \in what
    BY <2>2 DEF Acting
  <2>7. item'[k] = item[k] /\ half'[k] = half[k]
    BY <1>11
  <2>8. Held(k)'
    <3>1. \A q, q2 \in Polls : poll'[q].plan[k] = "put" =>
             half'[k] # None /\ (poll'[q2].plan[k] = "put" => q2 = q)
      BY <2>1, <2>2, <2>5, <2>7 DEF Held
    <3>2. half'[k] # None /\ (\A q \in Polls : poll'[q].plan[k] # "put")
             => item'[k].state \in {"proposed", "snoozed"}
      BY <2>1, <2>2, <2>5, <2>7 DEF Held
    <3>3. \A q \in Polls : q # p =>
             /\ Acting(q, k, {"wait", "again"})' => item'[k].state \in Linked
             /\ Acting(q, k, {"create"})' => ~item'[k].tried
             /\ Acting(q, k, {"create", "propose"})' \/ poll'[q].plan[k] = "put"
                    => (item'[k].state = "dismissed" => poll'[q].found[k] # item'[k].fp)
      BY <2>1, <2>5, <2>7, DeedSets DEF Held
    <3>4. /\ Acting(p, k, {"wait", "again"})' => item'[k].state \in Linked
          /\ Acting(p, k, {"create"})' => ~item'[k].tried
          /\ Acting(p, k, {"create", "propose"})' \/ poll'[p].plan[k] = "put"
                    => (item'[k].state = "dismissed" => poll'[p].found[k] # item'[k].fp)
      <4>1. Acting(p, k, {"wait", "again"})' => item'[k].state \in Linked
        BY <2>3, <2>6, <2>7, DeedSets DEF Afterwards, Linked
      <4>2. Acting(p, k, {"create"})' => ~item'[k].tried
        BY <1>7, <2>6, <2>7, DeedSets
      <4>3. Acting(p, k, {"create", "propose"})' \/ poll'[p].plan[k] = "put"
                    => (item'[k].state = "dismissed" => poll'[p].found[k] # item'[k].fp)
        BY <2>2, <2>4, <2>6, <2>7, DeedSets
      <4> QED BY <4>1, <4>2, <4>3
    <3> QED BY <3>1, <3>2, <3>3, <3>4 DEF Held
  <2>9. ASSUME k \notin loose' PROVE Known(k)'
    <3>1. Known(k) /\ k \notin loose
      BY <1>11, <1>13, <2>9 DEF IInv, ItemInv
    <3>2. \A t \in Tasks : /\ Of(t, k)' <=> Of(t, k)
                           /\ Live(t)' <=> Live(t)
                           /\ Ended(t)' <=> Ended(t)
      BY <1>11 DEF Of, Live, Ended
    <3>3. /\ LiveIsLinked(k)' /\ EndedIsTold(k)'
          /\ Over(k)' <=> Over(k)
          /\ Fixed(k)' <=> Fixed(k)
      BY <2>7, <3>1, <3>2 DEF Known, LiveIsLinked, EndedIsTold, Over, Fixed
    <3>4. ASSUME plan[k] \in {"create", "propose", "wait", "again"} PROVE Over(k)
      <4> SUFFICES ASSUME NEW t \in Tasks, Of(t, k), Live(t) PROVE FALSE
        BY DEF Over
      <4>1. item[k].task = t /\ item[k].state = "task_created"
        BY <3>1 DEF Known, LiveIsLinked
      <4>2. CASE plan[k] \in {"wait", "again"}
        BY <2>3, <4>1, <4>2 DEF Afterwards, Live, Finished
      <4>3. CASE plan[k] \in {"create", "propose"}
        <5>1. ~Worked(item[k]) /\ Unchanged(p, k)
          BY <2>4, <4>1, <4>3
        <5>2. task[t].st = "bare"
          BY <4>1, <5>1 DEF Worked, Handled, Live
        <5> QED BY <1>11, <2>9, <4>1, <5>1, <5>2
      <4> QED BY <3>4, <4>2, <4>3
    <3>5. ASSUME plan[k] \in {"create", "propose"} PROVE Fixed(k)
      BY <2>4, <3>1, <3>5 DEF Fixed, Known, EndedIsTold, Afterwards, Linked, Ended
    <3>6. \A q \in Polls : /\ Acting(q, k, {"create", "propose", "wait", "again"})' => Over(k)'
                           /\ Acting(q, k, {"create", "propose"})' => Fixed(k)'
      BY <2>5, <2>6, <3>1, <3>3, <3>4, <3>5, DeedSets DEF Known
    <3> QED BY <2>7, <3>1, <3>3, <3>6 DEF Known
  <2> QED BY <2>8, <2>9 DEF ItemInv
<1> QED BY <1>10, <1>12, <1>13 DEF IInv

-----------------------------------------------------------------------------
(* Every step, and the theorems *)

LEMMA NextIInv == IInv /\ [Next]_vars => IInv'
<1> SUFFICES ASSUME IInv, [Next]_vars PROVE IInv'
  OBVIOUS
<1>1. CASE UNCHANGED vars
  BY <1>1, StutterIInv
<1>2. ASSUME NEW p \in Polls, Discover(p) \/ Pass(p) \/ PollFails(p) PROVE IInv'
  <2>1. CASE Discover(p) \/ List(p) \/ Decide(p) \/ EndPoll(p) \/ PollFails(p)
    BY <2>1, DiscoverKeeps, ListKeeps, DecideKeeps, EndPollKeeps, PollFailsKeeps
  <2>2. ASSUME NEW k \in Keys, Skip(p, k) \/ Apply(p, k) \/ AutoStart(p, k)
                                \/ AutoStartFails(p, k) \/ PutStarted(p, k)
        PROVE  IInv'
    BY <2>2, SkipKeeps, ApplyKeeps, AutoStartKeeps, AutoStartFailsKeeps, PutStartedKeeps
  <2> QED BY <1>2, <2>1, <2>2 DEF Pass
<1>3. CASE Operator
  BY <1>3, ApproveKeeps, PutAsideKeeps, PutApprovedKeeps, ApproveFailsKeeps DEF Operator
<1>4. CASE TaskMoves
  BY <1>4, TaskEndsKeeps, ResumeTaskKeeps DEF TaskMoves
<1>5. CASE Restart
  BY <1>5, RestartKeeps
<1>6. ASSUME NEW k \in Keys, GitHubMoves(k) PROVE IInv'
  BY <1>6, GitHubMovesKeeps
<1> QED BY <1>1, <1>2, <1>3, <1>4, <1>5, <1>6 DEF Next

LEMMA IInvAlways == Spec => []IInv
  BY InitIInv, NextIInv, PTL DEF Spec

\* Every variable of the inbox has its type, and a task that is held or linked is the
\* item's: put_item and start_task, by whoever calls them.
THEOREM TypeCorrect == Spec => []TypeOK
  BY IInvAlways, IInvTypes, PTL

\* A live task of an item that the inbox did not lose track of is the one the item is
\* linked to, except between its creation and the write that links it: poll_project,
\* _github_act and the tasks' own ends, in any order.
THEOREM WorkStaysLinked == Spec => []WorkIsLinked
<1>1. IInv => WorkIsLinked
  <2> SUFFICES ASSUME IInv, NEW t \in Tasks, Live(t), task[t].key \notin loose,
                      half[task[t].key] # t
               PROVE  item[task[t].key].task = t
                      /\ item[task[t].key].state \in {"task_created", "awaiting_rescan"}
    BY DEF WorkIsLinked
  <2>1. PICK k \in Keys : k = task[t].key
    BY DEF IInv, Stored, Live
  <2>2. LiveIsLinked(k)
    BY <2>1 DEF IInv, ItemInv, Known
  <2> QED BY <2>1, <2>2 DEF LiveIsLinked, Of
<1> QED BY <1>1, IInvAlways, PTL

\* A poll starts no task by itself on an item on which a task has finished, unless the
\* inbox lost track of it: policy, tried and the item's link, read in decide and acted
\* on later in poll_project.
THEOREM AutoStartsOnce == Spec => []NeverAutoRetried
<1>1. IInv => NeverAutoRetried
  BY DEF IInv
<1> QED BY <1>1, IInvAlways, PTL

\* No step offers or starts what is dismissed with the fingerprint it was dismissed
\* with: the poll's decisions, a start's two halves, the operator's approval.
THEOREM DismissalsStay == Spec => DismissedStays
<1> DEFINE Stays(k) == item[k].state = "dismissed" /\ item'[k].state \in {"proposed", "task_created"}
                       => item'[k].fp # item[k].fp
<1>1. ASSUME IInv, [Next]_vars, NEW k \in Keys PROVE Stays(k)
  <2>1. item \in [Keys -> ItemStates] /\ item[k] \in ItemStates
    BY <1>1 DEF IInv, Stored
  <2>2. Held(k)
    BY <1>1 DEF IInv, ItemInv
  <2>3. ASSUME NEW j \in Keys, NEW i, item' = [item EXCEPT ![j] = i],
               item[j].state = "dismissed" /\ i.state \in {"proposed", "task_created"} => i.fp # item[j].fp
        PROVE  Stays(k)
    BY <2>1, <2>3
  <2>4. ASSUME NEW p \in Polls, NEW j \in Keys, Apply(p, j) PROVE Stays(k)
    <3> DEFINE fp == poll[p].found[j]
    <3>1. item[j] \in ItemStates /\ Held(j)
      BY <1>1 DEF IInv, Stored, ItemInv
    <3>2. CASE Plans(p, j, "propose") /\ Propose(p, j, None, item[j].tried)
      <4>1. item[j].state = "dismissed" => fp # item[j].fp
        BY <2>4, <3>1, <3>2 DEF Apply, Plans, Held, Acting
      <4> QED BY <2>3, <3>2, <4>1 DEF Propose, Write
    <3>3. CASE Plans(p, j, "again") /\ Propose(p, j, None, TRUE)
      <4>1. item[j].state # "dismissed"
        BY <2>4, <3>1, <3>3 DEF Apply, Plans, Held, Acting, Linked
      <4> QED BY <2>3, <3>3, <4>1 DEF Propose, Write
    <3>4. CASE Write(p, j, [item[j] EXCEPT !.state = "awaiting_rescan", !.fp = fp])
      <4> DEFINE i == [item[j] EXCEPT !.state = "awaiting_rescan", !.fp = fp]
      <4>1. i.state = "awaiting_rescan" /\ item' = [item EXCEPT ![j] = i]
        BY <3>1, <3>4 DEF ItemStates, Write
      <4> HIDE DEF i
      <4> QED BY <2>3, <4>1
    <3>5. CASE Write(p, j, [item[j] EXCEPT !.fp = fp])
      <4> DEFINE i == [item[j] EXCEPT !.fp = fp]
      <4>1. i.state = item[j].state /\ item' = [item EXCEPT ![j] = i]
        BY <3>1, <3>5 DEF ItemStates, Write
      <4> HIDE DEF i
      <4> QED BY <2>3, <4>1
    <3>6. CASE Write(p, j, [item[j] EXCEPT !.state = "resolved"])
      <4> DEFINE i == [item[j] EXCEPT !.state = "resolved"]
      <4>1. i.state = "resolved" /\ item' = [item EXCEPT ![j] = i]
        BY <3>1, <3>6 DEF ItemStates, Write
      <4> HIDE DEF i
      <4> QED BY <2>3, <4>1
    <3> QED BY <2>4, <3>2, <3>3, <3>4, <3>5, <3>6 DEF Apply
  <2>5. ASSUME NEW p \in Polls, NEW j \in Keys, AutoStartFails(p, j) \/ PutStarted(p, j) PROVE Stays(k)
    <3> DEFINE fp == poll[p].found[j]
    <3>1. item[j].state = "dismissed" => fp # item[j].fp
      BY <1>1, <2>5 DEF IInv, ItemInv, Held, AutoStartFails, PutStarted, Plans, Acting
    <3>2. PICK st, t, tried : item' = [item EXCEPT ![j] = [state |-> st, fp |-> fp, task |-> t, tried |-> tried]]
      BY <2>5 DEF AutoStartFails, PutStarted, Propose, Write
    <3> QED BY <2>3, <3>1, <3>2
  <2>6. ASSUME NEW j \in Keys, PutApproved(j) PROVE Stays(k)
    <3>1. item[j].state # "dismissed"
      BY <1>1, <2>6 DEF IInv, ItemInv, Held, PutApproved, Approving
    <3> QED BY <2>3, <2>6, <3>1 DEF PutApproved, Put
  <2>7. ASSUME NEW j \in Keys, PutAside(j) PROVE Stays(k)
    <3>1. PICK to \in {"dismissed", "snoozed"} : item' = [item EXCEPT ![j] = [item[j] EXCEPT !.state = to]]
      BY <2>7 DEF PutAside, Put
    <3>2. item[j] \in ItemStates
      BY <1>1 DEF IInv, Stored
    <3> DEFINE i == [item[j] EXCEPT !.state = to]
    <3>3. i.state \notin {"proposed", "task_created"} /\ item' = [item EXCEPT ![j] = i]
      BY <3>1, <3>2 DEF ItemStates
    <3> HIDE DEF i
    <3> QED BY <2>3, <3>3
  <2>8. CASE UNCHANGED item
    BY <2>8
  <2>9. ASSUME NEW p \in Polls, Discover(p) \/ Pass(p) \/ PollFails(p) PROVE Stays(k)
    <3>1. ASSUME NEW j \in Keys, Skip(p, j) \/ AutoStart(p, j) PROVE UNCHANGED item
      BY <3>1 DEF Skip, AutoStart
    <3>2. CASE Discover(p) \/ List(p) \/ Decide(p) \/ EndPoll(p) \/ PollFails(p)
      BY <2>8, <3>2 DEF Discover, List, Decide, EndPoll, PollFails
    <3> QED BY <2>4, <2>5, <2>8, <2>9, <3>1, <3>2 DEF Pass
  <2>10. CASE Operator
    <3>1. ASSUME NEW j \in Keys, Approve(j) \/ ApproveFails(j) PROVE UNCHANGED item
      BY <3>1 DEF Approve, ApproveFails
    <3> QED BY <2>6, <2>7, <2>8, <2>10, <3>1 DEF Operator
  <2>11. CASE TaskMoves
    <3>1. ASSUME NEW t \in Tasks, NEW from, NEW to, Becomes(t, from, to) PROVE UNCHANGED item
      BY <3>1 DEF Becomes
    <3> QED BY <2>8, <2>11, <3>1
            DEF TaskMoves, MarkQueued, Run, Finish, Settle, StopTask, DeleteTask, ResumeTask
  <2>12. CASE Restart \/ \E j \in Keys : GitHubMoves(j)
    BY <2>8, <2>12 DEF Restart, GitHubMoves
  <2>13. CASE UNCHANGED vars
    BY <2>8, <2>13 DEF vars
  <2> QED BY <1>1, <2>9, <2>10, <2>11, <2>12, <2>13 DEF Next
<1>2. IInv /\ [Next]_vars =>
        [\A k \in Keys :
           item[k].state = "dismissed" /\ item'[k].state \in {"proposed", "task_created"}
           => item'[k].fp # item[k].fp]_vars
  BY <1>1
<1> QED BY <1>2, IInvAlways, PTL DEF Spec, DismissedStays

=============================================================================
