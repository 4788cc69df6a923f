------------------------------ MODULE StateFile ------------------------------
(***************************************************************************)
(* services/shared/json-state.js, system call by system call: the reviewer *)
(* and the review server read, change and write back one JSON file under a *)
(* lock file.  A process runs one piece of code at a time, so of its       *)
(* updates one is between two awaits; the processes interleave at every    *)
(* call.  A tick of the clock is 5 s, in which whoever waits has polled.   *)
(***************************************************************************)
EXTENDS Naturals, FiniteSets

CONSTANTS
    Processes,    \* for each process, the updates it can have under way
    None,         \* no lock file
    Slow,         \* ticks a critical section takes at most
    MaxUpdates,   \* bound: updates of a writer
    MaxFaults     \* bound: deaths of a process and calls that fail

Writers == UNION Processes

STALE_MS == 2     \* 10 s
WAIT_MS  == 3     \* 15 s

ASSUME ConstantsAssumption ==
    /\ \A p, q \in Processes : p # q => p \cap q = {}
    /\ None \notin Writers
    /\ Slow \in 0..STALE_MS
    /\ MaxUpdates \in Nat /\ MaxFaults \in Nat

VARIABLES
    file,     \* the content: how many updates of each writer are in it
    lock,     \* who created the lock file, or None
    age,      \* ticks since the lock file was written, up to WAIT_MS + 1
    pc,       \* where each update is
    copy,     \* what it read
    waited,   \* ticks it has waited, up to WAIT_MS + 1
    begun,    \* updates each writer has begun
    faults,
    quiet,    \* history: waiting updates since whose begin nobody took the lock
    spoiled   \* history: a lock was removed under its holder, or a read failed

clock == <<age, waited>>
vars == <<file, lock, age, pc, copy, waited, begun, faults, quiet, spoiled>>

Inside(w) == pc[w] \in {"read", "write", "release"}

\* No other update of its process is between two awaits.
Runs(w) == \A p \in Processes : w \in p =>
               \A v \in p \ {w} : pc[v] \in {"idle", "open", "rest"}

Goes(w, to) == pc' = [pc EXCEPT ![w] = to]

Faults == faults < MaxFaults /\ faults' = faults + 1

-----------------------------------------------------------------------------
(* tryAcquire, and the loop around it *)

Begin(w) ==
    /\ pc[w] = "idle" /\ begun[w] < MaxUpdates
    /\ Goes(w, "open")
    /\ begun' = [begun EXCEPT ![w] = @ + 1]
    /\ waited' = [waited EXCEPT ![w] = 0]
    /\ quiet' = quiet \union {w}
    /\ UNCHANGED <<file, lock, age, copy, faults, spoiled>>

\* Mutant of Free: the file is opened without O_EXCL.
FreeAlways == TRUE

\* openSync(lockPath, 'wx') succeeds.
Free == lock = None

\* The lock file is created; when its pid cannot be written the call throws and the
\* lock file stays.
Open(w) ==
    /\ pc[w] = "open" /\ Runs(w) /\ Free
    /\ lock' = w /\ age' = 0 /\ quiet' = {}
    /\ \/ Goes(w, "read") /\ UNCHANGED faults
       \/ Goes(w, "idle") /\ Faults
    /\ UNCHANGED <<file, copy, waited, begun, spoiled>>

Exists(w) ==
    /\ pc[w] = "open" /\ Runs(w) /\ ~Free
    /\ Goes(w, "stat")
    /\ UNCHANGED <<file, lock, clock, copy, begun, faults, quiet, spoiled>>

\* Mutant of Stale: as patient with a lock as with the wait.
StaleLate == lock # None /\ age > WAIT_MS

\* The lock file is older than STALE_MS.
Stale == lock # None /\ age > STALE_MS

\* tryAcquire was false: the wait may be over.
Failed(w, next) == Goes(w, IF waited[w] > WAIT_MS THEN "late" ELSE next)

\* statSync: the lock is fresh, stale, or gone by now.
Stat(w) ==
    /\ pc[w] = "stat"
    /\ IF Stale THEN Goes(w, "unlink") ELSE Failed(w, IF lock = None THEN "open" ELSE "rest")
    /\ UNCHANGED <<file, lock, clock, copy, begun, faults, quiet, spoiled>>

\* unlinkSync removes the lock file of that name, be it the one that was looked at or
\* one that was created since.
Unlink(w) ==
    /\ pc[w] = "unlink"
    /\ lock' = None /\ age' = 0
    /\ spoiled' = (spoiled \/ \E v \in Writers : Inside(v))
    /\ Failed(w, "open")
    /\ UNCHANGED <<file, copy, waited, begun, faults, quiet>>

\* 20 ms later.
Wake(w) ==
    /\ pc[w] = "rest" /\ Goes(w, "open")
    /\ UNCHANGED <<file, lock, clock, copy, begun, faults, quiet, spoiled>>

TimedOut(w) ==
    /\ pc[w] = "late" /\ Goes(w, "idle")
    /\ UNCHANGED <<file, lock, clock, copy, begun, faults, quiet, spoiled>>

-----------------------------------------------------------------------------
(* applyUnderLock and release *)

Empty == [v \in Writers |-> 0]

\* readJson, and mutate on what it read; false, or an error, skips the write.  A file
\* that cannot be read is {}, and that is what is written back.
Read(w) ==
    /\ pc[w] = "read"
    /\ \/ /\ copy' = [copy EXCEPT ![w] = file]
          /\ Goes(w, "write") \/ Goes(w, "release")
          /\ UNCHANGED <<faults, spoiled>>
       \/ /\ Faults /\ spoiled' = TRUE
          /\ copy' = [copy EXCEPT ![w] = Empty]
          /\ Goes(w, "write")
    /\ UNCHANGED <<file, lock, clock, begun, quiet>>

\* Mutant of Changed: the change is made once more, on what was made of it already.
ChangedTwice(w) == [copy[w] EXCEPT ![w] = @ + 2]

\* What mutate makes of what was read.
Changed(w) == [copy[w] EXCEPT ![w] = @ + 1]

\* writeJsonAtomic: a file of its own, renamed; when that fails nothing is written.
WriteJsonAtomic(w) ==
    /\ pc[w] = "write"
    /\ \/ file' = Changed(w) /\ UNCHANGED faults
       \/ Faults /\ UNCHANGED file
    /\ Goes(w, "release")
    /\ UNCHANGED <<lock, clock, copy, begun, quiet, spoiled>>

\* release: unlinks whatever lock file there is.
Release(w) ==
    /\ pc[w] = "release"
    /\ lock' = None /\ age' = 0
    /\ Goes(w, "idle")
    /\ UNCHANGED <<file, copy, waited, begun, faults, quiet, spoiled>>

-----------------------------------------------------------------------------
(* Death, and time *)

Die(p) ==
    /\ Faults
    /\ pc' = [w \in Writers |-> IF w \in p THEN "idle" ELSE pc[w]]
    /\ UNCHANGED <<file, lock, clock, copy, begun, quiet, spoiled>>

\* Who waits has polled since the last tick, unless its own process kept it from that.
Tick ==
    /\ \A w \in Writers : \/ pc[w] \in {"idle", "rest"}
                          \/ Inside(w) /\ age < Slow
                          \/ pc[w] = "open" /\ ~Runs(w)
    /\ age' = IF lock # None /\ age <= WAIT_MS THEN age + 1 ELSE age
    /\ waited' = [w \in Writers |-> IF pc[w] \in {"rest", "open"} /\ waited[w] <= WAIT_MS
                                    THEN waited[w] + 1 ELSE waited[w]]
    /\ pc' = [w \in Writers |-> IF pc[w] = "rest" THEN "open" ELSE pc[w]]
    /\ UNCHANGED <<file, lock, copy, begun, faults, quiet, spoiled>>

Init ==
    /\ file = Empty /\ lock = None /\ age = 0
    /\ pc = [w \in Writers |-> "idle"]
    /\ copy = [w \in Writers |-> Empty]
    /\ waited = [w \in Writers |-> 0] /\ begun = [w \in Writers |-> 0]
    /\ faults = 0 /\ quiet = {} /\ spoiled = FALSE

Step(w) ==
    \/ Begin(w) \/ Open(w) \/ Exists(w) \/ Stat(w) \/ Unlink(w) \/ Wake(w) \/ TimedOut(w)
    \/ Read(w) \/ WriteJsonAtomic(w) \/ Release(w)

Next == (\E w \in Writers : Step(w)) \/ (\E p \in Processes : Die(p)) \/ Tick

Spec == Init /\ [][Next]_vars

-----------------------------------------------------------------------------
(* Correctness *)

Counts == [Writers -> 0..MaxUpdates]

TypeOK ==
    /\ file \in Counts /\ copy \in [Writers -> Counts] /\ begun \in Counts
    /\ lock \in Writers \union {None} /\ age \in 0..(WAIT_MS + 1)
    /\ pc \in [Writers -> {"idle", "open", "stat", "unlink", "rest", "late",
                           "read", "write", "release"}]
    /\ waited \in [Writers -> 0..(WAIT_MS + 1)]
    /\ faults \in 0..MaxFaults /\ quiet \subseteq Writers /\ spoiled \in BOOLEAN

\* An update is atomic and none is lost: the file moves as UpdateStore says, until a
\* lock is removed under its holder (tryAcquire's stat and unlink are two calls) or a
\* read fails.
Store == INSTANCE UpdateStore WITH
            asked <- {w \in Writers : pc[w] \notin {"idle", "release"}}, trusted <- ~spoiled

Implements == Store!Spec

\* A dead process blocks nobody for longer than they wait: WAIT_MS exceeds STALE_MS,
\* so whoever gives up has seen the lock change hands meanwhile.
TimeoutMeansBusy == \A w \in Writers : pc[w] = "late" => w \notin quiet

=============================================================================
