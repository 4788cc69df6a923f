--------------------------- MODULE StateFileProofs ---------------------------
(***************************************************************************)
(* Theorems of StateFile, for every set of processes and every bound: type *)
(* correctness, and that the file implements UpdateStore.  The inductive   *)
(* invariant says who may be in the critical section (Held), that what was *)
(* read there is still the content (Fresh), and that the content counts no *)
(* update that was not begun (Counted).                                    *)
(***************************************************************************)
EXTENDS StateFile, TLAPS

Asking(w) == pc[w] \notin {"idle", "release"}

Held == ~spoiled => \A w \in Writers : Inside(w) => lock = w

Fresh == ~spoiled => \A w \in Writers : pc[w] = "write" => copy[w] = file

\* What is under way is in no content, the written one or one that was read.
Counted ==
    \A w \in Writers :
        /\ file[w] <= begun[w] /\ (Asking(w) => file[w] < begun[w])
        /\ \A v \in Writers : copy[v][w] <= begun[w] /\ (Asking(w) => copy[v][w] < begun[w])

IInv == TypeOK /\ Held /\ Fresh /\ Counted

LEMMA InitIInv == Init => IInv
<1> SUFFICES ASSUME Init PROVE IInv
  OBVIOUS
<1>1. TypeOK
  <2>1. file \in Counts /\ begun \in Counts /\ copy \in [Writers -> Counts]
    BY ConstantsAssumption DEF ConstantsAssumption, Init, Empty, Counts
  <2>2. pc \in [Writers -> {"idle"}] /\ waited \in [Writers -> 0..(WAIT_MS + 1)]
    BY DEF Init, WAIT_MS
  <2>3. faults \in 0..MaxFaults /\ age \in 0..(WAIT_MS + 1)
    BY ConstantsAssumption DEF ConstantsAssumption, Init, WAIT_MS
  <2>4. lock \in Writers \union {None} /\ quiet \subseteq Writers /\ spoiled \in BOOLEAN
    BY DEF Init
  <2> QED BY <2>1, <2>2, <2>3, <2>4 DEF TypeOK
<1>2. Held /\ Fresh /\ Counted
  BY DEF Init, Empty, Held, Fresh, Counted, Inside, Asking
<1> QED BY <1>1, <1>2 DEF IInv

-----------------------------------------------------------------------------
(* Type correctness *)

LEMMA StepType == ASSUME IInv, NEW w \in Writers, Step(w) PROVE TypeOK'
<1> USE ConstantsAssumption DEF ConstantsAssumption, Counts, STALE_MS, WAIT_MS
<1>1. CASE Begin(w)
  BY <1>1 DEF Begin, Goes, IInv, TypeOK
<1>2. CASE Open(w)
  BY <1>2 DEF Open, Goes, Faults, IInv, TypeOK
<1>3. CASE Exists(w) \/ Wake(w) \/ TimedOut(w)
  BY <1>3 DEF Exists, Wake, TimedOut, clock, Goes, IInv, TypeOK
<1>4. CASE Stat(w)
  BY <1>4 DEF Stat, Failed, clock, Goes, IInv, TypeOK
<1>5. CASE Unlink(w)
  BY <1>5 DEF Unlink, Failed, Goes, IInv, TypeOK, Inside
<1>6. CASE Read(w)
  <2>1. copy' \in [Writers -> Counts]
    <3>1. Empty \in Counts /\ file \in Counts
      BY DEF Empty, IInv, TypeOK
    <3>2. copy' = [copy EXCEPT ![w] = file] \/ copy' = [copy EXCEPT ![w] = Empty]
      BY <1>6 DEF Read
    <3> QED BY <3>1, <3>2 DEF IInv, TypeOK
  <2>3. faults' \in 0..MaxFaults
    BY <1>6 DEF Read, Faults, IInv, TypeOK
  <2>4. spoiled' \in BOOLEAN
    BY <1>6, Zenon DEF Read, IInv, TypeOK
  <2>2. \E to \in {"write", "release"} : pc' = [pc EXCEPT ![w] = to]
    BY <1>6 DEF Read, Goes
  <2> QED BY <1>6, <2>1, <2>2, <2>3, <2>4 DEF Read, clock, IInv, TypeOK
<1>7. CASE WriteJsonAtomic(w)
  <2>1. Changed(w) \in Counts
    BY <1>7 DEF WriteJsonAtomic, Changed, IInv, TypeOK, Counted, Asking
  <2> QED BY <1>7, <2>1 DEF WriteJsonAtomic, clock, Goes, Faults, IInv, TypeOK
<1>8. CASE Release(w)
  BY <1>8 DEF Release, Goes, IInv, TypeOK
<1> QED BY <1>1, <1>2, <1>3, <1>4, <1>5, <1>6, <1>7, <1>8 DEF Step

LEMMA OtherType == ASSUME IInv, Tick \/ \E p \in Processes : Die(p) PROVE TypeOK'
<1> USE ConstantsAssumption DEF ConstantsAssumption, Counts, STALE_MS, WAIT_MS
<1>1. CASE Tick
  BY <1>1 DEF Tick, IInv, TypeOK
<1>2. ASSUME NEW p \in Processes, Die(p) PROVE TypeOK'
  BY <1>2 DEF Die, clock, Faults, IInv, TypeOK
<1> QED BY <1>1, <1>2

-----------------------------------------------------------------------------
(* Held, Fresh and Counted *)

LEMMA StepHeld == ASSUME IInv, NEW w \in Writers, Step(w) PROVE Held'
<1> USE ConstantsAssumption DEF ConstantsAssumption
<1>1. CASE Begin(w)
  BY <1>1 DEF Begin, Goes, IInv, TypeOK, Held, Inside
<1>2. CASE Open(w)
  BY <1>2 DEF Open, Free, Goes, IInv, TypeOK, Held, Inside
<1>3. CASE Exists(w) \/ Wake(w) \/ TimedOut(w)
  BY <1>3 DEF Exists, Wake, TimedOut, clock, Goes, IInv, TypeOK, Held, Inside
<1>4. CASE Stat(w)
  BY <1>4 DEF Stat, Failed, clock, Goes, IInv, TypeOK, Held, Inside
<1>5. CASE Unlink(w)
  <2> SUFFICES ASSUME ~spoiled', NEW v \in Writers, Inside(v)' PROVE FALSE
    BY DEF Held
  <2>1. ~Inside(v)
    BY <1>5 DEF Unlink
  <2>2. PICK to \in {"late", "open"} : pc' = [pc EXCEPT ![w] = to]
    BY <1>5 DEF Unlink, Failed, Goes
  <2> QED
    BY <2>1, <2>2 DEF Inside, IInv, TypeOK
<1>6. CASE Read(w)
  BY <1>6 DEF Read, clock, Goes, IInv, TypeOK, Held, Inside
<1>7. CASE WriteJsonAtomic(w)
  BY <1>7 DEF WriteJsonAtomic, clock, Goes, IInv, TypeOK, Held, Inside
<1>8. CASE Release(w)
  BY <1>8 DEF Release, Goes, IInv, TypeOK, Held, Inside
<1> QED BY <1>1, <1>2, <1>3, <1>4, <1>5, <1>6, <1>7, <1>8 DEF Step

LEMMA StepFresh == ASSUME IInv, NEW w \in Writers, Step(w) PROVE Fresh'
<1> USE ConstantsAssumption DEF ConstantsAssumption
<1>1. CASE Begin(w) \/ Open(w) \/ Exists(w) \/ Wake(w) \/ TimedOut(w) \/ Release(w)
  BY <1>1 DEF Begin, Open, Exists, Wake, TimedOut, Release, clock, Goes, IInv, TypeOK, Fresh
<1>2. CASE Stat(w) \/ Unlink(w)
  BY <1>2 DEF Stat, Unlink, Failed, clock, Goes, IInv, TypeOK, Fresh
<1>3. CASE Read(w)
  BY <1>3 DEF Read, clock, Goes, IInv, TypeOK, Fresh
<1>4. CASE WriteJsonAtomic(w)
  <2> SUFFICES ASSUME ~spoiled, NEW v \in Writers, pc'[v] = "write" PROVE FALSE
    BY <1>4 DEF WriteJsonAtomic, Fresh
  <2>1. v # w /\ pc[v] = "write"
    BY <1>4 DEF WriteJsonAtomic, Goes, IInv, TypeOK
  <2> QED BY <1>4, <2>1 DEF WriteJsonAtomic, IInv, Held, Inside
<1> QED BY <1>1, <1>2, <1>3, <1>4 DEF Step

LEMMA StepCounted == ASSUME IInv, NEW w \in Writers, Step(w) PROVE Counted'
<1> USE DEF Counts, Asking
<1>1. CASE Begin(w)
  BY <1>1 DEF Begin, Goes, IInv, TypeOK, Counted
<1>2. CASE Open(w) \/ Exists(w) \/ Wake(w) \/ TimedOut(w) \/ Release(w)
  BY <1>2 DEF Open, Exists, Wake, TimedOut, Release, clock, Goes, IInv, TypeOK, Counted
<1>3. CASE Stat(w) \/ Unlink(w)
  BY <1>3 DEF Stat, Unlink, Failed, clock, Goes, IInv, TypeOK, Counted
<1>4. CASE Read(w)
  BY <1>4 DEF Read, Empty, clock, Goes, IInv, TypeOK, Counted
<1>5. CASE WriteJsonAtomic(w)
  <2>1. CASE file' = file
    BY <1>5, <2>1 DEF WriteJsonAtomic, clock, Goes, IInv, TypeOK, Counted
  <2>2. CASE file' = Changed(w)
    <3>1. \A v \in Writers : file'[v] = IF v = w THEN copy[w][v] + 1 ELSE copy[w][v]
      BY <2>2 DEF Changed, IInv, TypeOK
    <3>2. ~Asking(w)' /\ Asking(w) /\ \A v \in Writers : v # w => Asking(v)' = Asking(v)
      BY <1>5 DEF WriteJsonAtomic, Goes, IInv, TypeOK
    <3> QED BY <1>5, <3>1, <3>2 DEF WriteJsonAtomic, clock, IInv, TypeOK, Counted
  <2> QED BY <1>5, <2>1, <2>2 DEF WriteJsonAtomic
<1> QED BY <1>1, <1>2, <1>3, <1>4, <1>5 DEF Step

\* Death takes updates out of the critical section, and time changes nothing there.
LEMMA OtherParts ==
    ASSUME IInv, Tick \/ \E p \in Processes : Die(p)
    PROVE Held' /\ Fresh' /\ Counted'
<1>1. /\ UNCHANGED <<file, lock, copy, begun, spoiled>>
      /\ \A w \in Writers : \/ pc'[w] = pc[w]
                            \/ pc'[w] = "idle"
                            \/ pc[w] = "rest" /\ pc'[w] = "open"
  BY DEF Tick, Die, clock, IInv, TypeOK
<1> QED BY <1>1 DEF IInv, Held, Fresh, Counted, Inside, Asking

LEMMA Inductive == IInv /\ [Next]_vars => IInv'
<1> SUFFICES ASSUME IInv, [Next]_vars PROVE IInv'
  OBVIOUS
<1>1. CASE \E w \in Writers : Step(w)
  BY <1>1, StepType, StepHeld, StepFresh, StepCounted DEF IInv
<1>2. CASE Tick \/ \E p \in Processes : Die(p)
  BY <1>2, OtherType, OtherParts DEF IInv
<1>3. CASE UNCHANGED vars
  BY <1>3 DEF vars, IInv, TypeOK, Counts, Held, Fresh, Counted, Inside, Asking
<1> QED BY <1>1, <1>2, <1>3 DEF Next

LEMMA Invariance == Spec => []IInv
BY InitIInv, Inductive, PTL DEF Spec

\* Every variable keeps its type; in particular no content, written or read, counts
\* more updates than were begun, whatever locks were removed.
THEOREM TypeCorrect == Spec => []TypeOK
BY Invariance, PTL DEF IInv

-----------------------------------------------------------------------------
(* The refinement *)

LEMMA StepMaps == ASSUME IInv, NEW w \in Writers, Step(w) PROVE [Store!Next]_(Store!vars)
<1> DEFINE asked == {v \in Writers : pc[v] \notin {"idle", "release"}}
<1> USE DEF Store!Next, Store!vars
<1>1. CASE Begin(w)
  <2>1. w \notin asked /\ asked' = asked \union {w} /\ UNCHANGED <<file, spoiled>>
    BY <1>1 DEF Begin, Goes, IInv, TypeOK
  <2> QED BY <2>1 DEF Store!Ask
<1>2. CASE Open(w) \/ Exists(w) \/ Stat(w) \/ Wake(w) \/ TimedOut(w) \/ Release(w)
  <2>1. asked' \subseteq asked /\ UNCHANGED <<file, spoiled>>
    BY <1>2 DEF Open, Exists, Stat, Wake, TimedOut, Release, Failed, clock, Goes, IInv, TypeOK
  <2> QED BY <2>1 DEF Store!GiveUp
<1>3. CASE Unlink(w)
  <2>1. asked' = asked /\ UNCHANGED file /\ (spoiled' = spoiled \/ spoiled')
    BY <1>3 DEF Unlink, Failed, Goes, IInv, TypeOK
  <2> QED BY <2>1 DEF Store!Distrust
<1>4. CASE WriteJsonAtomic(w)
  <2>1. w \in asked /\ asked' = asked \ {w} /\ UNCHANGED spoiled
    BY <1>4 DEF WriteJsonAtomic, Goes, IInv, TypeOK
  <2>2. CASE file' = file
    BY <2>1, <2>2 DEF Store!GiveUp
  <2>3. CASE file' = Changed(w)
    <3>1. ~spoiled => file' = [file EXCEPT ![w] = @ + 1]
      BY <1>4, <2>3 DEF WriteJsonAtomic, Changed, IInv, Fresh
    <3> QED BY <2>1, <3>1 DEF Store!Apply
  <2> QED BY <1>4, <2>2, <2>3 DEF WriteJsonAtomic
<1>5. CASE Read(w)
  <2>1. UNCHANGED file /\ asked' \subseteq asked
    BY <1>5 DEF Read, Goes, IInv, TypeOK
  <2>2. CASE UNCHANGED spoiled
    BY <2>1, <2>2 DEF Store!GiveUp
  <2>3. CASE spoiled' /\ Goes(w, "write")
    <3>1. asked' = asked
      BY <1>5, <2>3 DEF Read, Goes, IInv, TypeOK
    <3> QED BY <2>1, <2>3, <3>1 DEF Store!Distrust
  <2> QED BY <1>5, <2>2, <2>3 DEF Read
<1> QED BY <1>1, <1>2, <1>3, <1>4, <1>5 DEF Step

LEMMA OtherMaps ==
    ASSUME IInv, Tick \/ \E p \in Processes : Die(p)
    PROVE [Store!Next]_(Store!vars)
<1> DEFINE asked == {v \in Writers : pc[v] \notin {"idle", "release"}}
<1>1. asked' \subseteq asked /\ UNCHANGED <<file, spoiled>>
  BY DEF Tick, Die, clock, IInv, TypeOK
<1> QED BY <1>1 DEF Store!Next, Store!vars, Store!GiveUp

\* Updates of the file are atomic and none is lost, for any number of processes and
\* waiting requests, deaths and failing calls, until a lock is removed under its holder
\* or a read fails.
THEOREM UpdatesAreAtomic == Spec => Implements
<1>1. Init => Store!Init
  BY DEF Init, Empty, Store!Init
<1>2. IInv /\ [Next]_vars => [Store!Next]_(Store!vars)
  <2> SUFFICES ASSUME IInv, [Next]_vars PROVE [Store!Next]_(Store!vars)
    OBVIOUS
  <2>1. CASE UNCHANGED vars
    BY <2>1 DEF vars, Store!vars
  <2> QED BY <2>1, StepMaps, OtherMaps DEF Next
<1> QED BY <1>1, <1>2, Invariance, PTL DEF Spec, Implements, Store!Spec

-----------------------------------------------------------------------------
(* Whose wait is over has seen the lock change hands *)

\* As long as nobody took the lock since an update began, the update has waited no
\* longer than the lock has aged, and an old lock is removed and not waited for.  When
\* the lock is gone and nobody took it, an update may have waited for its own process,
\* but then it finds the lock free.
Patient ==
    \A w \in quiet :
        /\ pc[w] \in {"idle", "open", "stat", "unlink", "rest"}
        /\ pc[w] \in {"stat", "unlink"} => waited[w] <= WAIT_MS
        /\ pc[w] = "rest" => waited[w] <= STALE_MS
        /\ pc[w] # "idle" /\ lock # None => waited[w] <= age /\ waited[w] <= WAIT_MS

LEMMA StepPatient == ASSUME TypeOK, Patient, NEW w \in Writers, Step(w) PROVE Patient'
<1> USE ConstantsAssumption DEF ConstantsAssumption, STALE_MS, WAIT_MS
<1>1. CASE Begin(w)
  BY <1>1 DEF Begin, Goes, TypeOK, Patient
<1>2. CASE Open(w)
  BY <1>2 DEF Open, Patient
<1>3. CASE Exists(w)
  BY <1>3 DEF Exists, Free, clock, Goes, TypeOK, Patient
<1>4. CASE Wake(w) \/ TimedOut(w)
  BY <1>4 DEF Wake, TimedOut, clock, Goes, TypeOK, Patient
<1>5. CASE Stat(w)
  <2>1. UNCHANGED <<lock, age, waited, quiet>> /\ pc[w] = "stat"
    BY <1>5 DEF Stat, clock
  <2>2. CASE Stale /\ Goes(w, "unlink")
    BY <2>1, <2>2 DEF Goes, TypeOK, Patient
  <2>3. CASE ~Stale /\ Failed(w, IF lock = None THEN "open" ELSE "rest")
    <3>1. PICK to : Goes(w, to) /\ to = IF waited[w] > WAIT_MS THEN "late"
                                       ELSE IF lock = None THEN "open" ELSE "rest"
      BY <2>3 DEF Failed
    <3>2. w \in quiet => to \in {"open", "rest"} /\ (to = "rest" => waited[w] <= STALE_MS)
      BY <2>1, <2>3, <3>1 DEF Stale, Patient, TypeOK
    <3> QED BY <2>1, <3>1, <3>2 DEF Goes, TypeOK, Patient
  <2> QED BY <1>5, <2>2, <2>3 DEF Stat
<1>6. CASE Unlink(w)
  <2>1. UNCHANGED <<waited, quiet>> /\ pc[w] = "unlink" /\ lock' = None
    BY <1>6 DEF Unlink
  <2>2. PICK to : Goes(w, to) /\ to = IF waited[w] > WAIT_MS THEN "late" ELSE "open"
    BY <1>6 DEF Unlink, Failed
  <2>3. w \in quiet => to = "open"
    BY <2>1, <2>2 DEF Patient, TypeOK
  <2> QED BY <2>1, <2>2, <2>3 DEF Goes, TypeOK, Patient
<1>7. CASE Read(w) \/ WriteJsonAtomic(w)
  <2>1. UNCHANGED <<lock, age, waited, quiet>> /\ w \notin quiet
    BY <1>7 DEF Read, WriteJsonAtomic, clock, Patient
  <2>2. \A v \in Writers : v # w => pc'[v] = pc[v]
    BY <1>7 DEF Read, WriteJsonAtomic, Goes, TypeOK
  <2> QED BY <2>1, <2>2 DEF Patient, TypeOK
<1>8. CASE Release(w)
  BY <1>8 DEF Release, Goes, TypeOK, Patient
<1> QED BY <1>1, <1>2, <1>3, <1>4, <1>5, <1>6, <1>7, <1>8 DEF Step

\* In a tick, what waits for its own process waits for a critical section that is
\* young, or for one whose lock is gone.
LEMMA TickPatient == ASSUME TypeOK, Patient, Tick PROVE Patient'
<1> USE ConstantsAssumption DEF ConstantsAssumption, STALE_MS, WAIT_MS
<1>1. UNCHANGED <<lock, quiet>>
  BY DEF Tick
<1> SUFFICES ASSUME NEW w \in quiet
             PROVE  /\ pc'[w] \in {"idle", "open", "stat", "unlink", "rest"}
                    /\ pc'[w] \in {"stat", "unlink"} => waited'[w] <= WAIT_MS
                    /\ pc'[w] = "rest" => waited'[w] <= STALE_MS
                    /\ pc'[w] # "idle" /\ lock' # None => waited'[w] <= age' /\ waited'[w] <= WAIT_MS
  BY <1>1 DEF Patient
<1>2. w \in Writers /\ waited[w] \in 0..(WAIT_MS + 1) /\ age \in 0..(WAIT_MS + 1)
  BY DEF TypeOK
<1>3. /\ pc'[w] = IF pc[w] = "rest" THEN "open" ELSE pc[w]
      /\ waited'[w] = IF pc[w] \in {"rest", "open"} /\ waited[w] <= WAIT_MS
                     THEN waited[w] + 1 ELSE waited[w]
      /\ age' = IF lock # None /\ age <= WAIT_MS THEN age + 1 ELSE age
      /\ pc[w] \in {"idle", "rest"} \/ (pc[w] = "open" /\ ~Runs(w))
  BY <1>2 DEF Tick, Patient, Inside
<1>4. CASE pc[w] = "idle"
  BY <1>3, <1>4
<1>5. CASE pc[w] = "rest"
  BY <1>1, <1>2, <1>3, <1>5 DEF Patient
<1>6. CASE pc[w] = "open" /\ ~Runs(w)
  <2>1. PICK p \in Processes : \E v \in p \ {w} : pc[v] \notin {"idle", "open", "rest"}
    BY <1>6 DEF Runs
  <2>2. age < Slow
    BY <2>1 DEF Tick, Writers
  <2> QED BY <1>1, <1>2, <1>3, <1>6, <2>2 DEF Patient
<1> QED BY <1>3, <1>4, <1>5, <1>6

LEMMA PatientStep == TypeOK /\ Patient /\ [Next]_vars => Patient'
<1> SUFFICES ASSUME TypeOK, Patient, [Next]_vars PROVE Patient'
  OBVIOUS
<1>1. ASSUME NEW p \in Processes, Die(p) PROVE Patient'
  BY <1>1 DEF Die, clock, TypeOK, Patient
<1>2. CASE UNCHANGED vars
  BY <1>2 DEF vars, Patient
<1> QED BY <1>1, <1>2, StepPatient, TickPatient DEF Next

\* An update gives up (the throw of updateJson) only after somebody else took the lock
\* while it waited: a dead process, and its own process's other updates, make nobody
\* time out.
THEOREM TimeoutsMeanBusy == Spec => []TimeoutMeansBusy
<1>1. Init => Patient
  BY DEF Init, Patient
<1>2. Patient => TimeoutMeansBusy
  BY DEF Patient, TimeoutMeansBusy
<1> QED BY <1>1, <1>2, TypeCorrect, PatientStep, PTL DEF Spec
=============================================================================
