---------------------------- MODULE ProjectsProofs ----------------------------
(***************************************************************************)
(* Theorems about Projects for every value of its constants: the types of  *)
(* its variables, and on top of them what becomes of projects.json and of  *)
(* the Store's rows, however many requests there are and however they      *)
(* interleave.                                                             *)
(***************************************************************************)
EXTENDS Projects, FiniteSetTheorems, FunctionTheorems, TLAPS

-----------------------------------------------------------------------------
(* Types *)

Adding  == {"create", "clone", "add"}
Leaving == {"remove", "erase"}

Ops == Adding \union Leaving \union {"none", "move", "key", "checks"}

Places ==
    {"idle", "make", "github", "detect", "tree", "undo", "rollback", "entry", "store", "load",
     "restore", "collect", "purge", "detach", "entries", "drop", "erase", "parked", "unhook",
     "rehook", "putback", "point", "follow", "key", "read", "fill"}

Requestings == [op : Ops, at : Places, name : Names \union {None}, dir : Dirs \union {None},
                to : Dirs \union {None}, flag : BOOLEAN, doc : SUBSET Rows]

\* What a request has to be and to know at a place.
Allowed(q, at) ==
    /\ at = "make" => q.op \in {"create", "clone"}
    /\ at = "github" => q.op = "create" /\ q.flag
    /\ at \in {"detect", "tree", "undo", "entry", "store", "load", "restore"} => q.op \in Adding
    /\ at = "rollback" => q.op = "create"
    /\ at \in {"collect", "purge", "detach", "entries", "drop", "erase"} => q.op \in Leaving
    /\ at \in {"parked", "unhook", "rehook", "putback", "point", "follow"}
         => q.op = "move" /\ q.to # None
    /\ at = "key" => q.op = "key"
    /\ at \in {"read", "fill"} => q.op = "checks"

Fits(q) ==
    /\ q.at = "idle" => q = Idle
    /\ q.at # "idle" => q.name # None /\ q.dir # None
    /\ Allowed(q, q.at)

Copies == [Names -> Entries \union {None}]

ReqTyped == req \in [Requests -> Requestings] /\ \A r \in Requests : Fits(req[r])

DiskTyped ==
    /\ disk \in [Dirs -> 0..MaxRepos] /\ repos \in 0..MaxRepos
    /\ needed \subseteq Dirs /\ stale \subseteq Dirs
    /\ ws \in [Names -> 0..Torn]
    /\ keys \subseteq Names /\ ssh \in [Dirs -> Names \union {None}]

StoreTyped ==
    /\ rows \in [Names -> SUBSET Rows] /\ archives \subseteq SUBSET Rows
    /\ written \in 0..MaxRows /\ mapping \subseteq Names
    /\ task \in [Names -> {"none", "new", "fresh", "working", "parked", "orphan"}]

FileTyped == file \in Copies /\ known \in Copies /\ snap \in [Requests -> Copies]

\* The loop is kept by who is between its reading and writing, the lock by one request.
LoopInv ==
    /\ holder \in Requests \union {None}
    /\ \A r \in Requests : (holder = r) <=> req[r].at \in {"drop", "fill"}
    /\ \A r, s \in Requests : req[r].at = "store" /\ req[s].at = "store" => r = s

\* The entry that is filled is in the copy that is written.
FillInv == \A r \in Requests : req[r].at = "fill" => snap[r][req[r].name] # None

Typed == ReqTyped /\ DiskTyped /\ StoreTyped /\ FileTyped /\ LoopInv /\ FillInv

LEMMA IdleFits == Idle \in Requestings /\ Fits(Idle)
BY DEF Idle, Requestings, Ops, Adding, Leaving, Places, Fits, Allowed

LEMMA EntryType ==
    /\ None \notin Entries
    /\ \A d \in Dirs, b \in BOOLEAN : [live |-> d, checks |-> b] \in Entries
    /\ \A e \in Entries : e.live \in Dirs /\ e.checks \in BOOLEAN
BY ConstantsAssumption DEF Entries

\* A workspace of a repository, or part of one.
LEMMA TornType == 0 \in 0..Torn /\ Torn \in 0..Torn /\ 0..MaxRepos \subseteq 0..Torn
BY ConstantsAssumption DEF Torn

\* The repositories that are there at first have numbers of their own.
LEMMA NumberType ==
    /\ Number \in [Cloned -> 1..Cardinality(Cloned)]
    /\ Cardinality(Cloned) \in Nat /\ Cardinality(Cloned) <= MaxRepos
<1>1. IsFiniteSet(Cloned) /\ Cardinality(Cloned) <= MaxRepos
  BY ConstantsAssumption
<1>2. Cardinality(Cloned) \in Nat /\ ExistsBijection(1..Cardinality(Cloned), Cloned)
  BY <1>1, FS_CardinalityType
<1>3. ExistsBijection(Cloned, 1..Cardinality(Cloned))
  BY <1>2, Fun_ExistsBijSymmetric
<1>4. \E f \in [Cloned -> 1..Cardinality(Cloned)] : \A d, e \in Cloned : d # e => f[d] # f[e]
  BY <1>3 DEF ExistsBijection, Bijection, Injection, IsInjective
<1> QED
  BY <1>1, <1>2, <1>4 DEF Number

LEMMA InitTyped == Init => Typed
<1> SUFFICES ASSUME Init PROVE Typed
  OBVIOUS
<1> DEFINE own == Basename[First]
<1>1. own \in Names /\ First \in Dirs /\ First \in Cloned
  BY ConstantsAssumption
<1>2. ReqTyped
  BY IdleFits DEF Init, ReqTyped
<1>3. DiskTyped
  <2>1. /\ disk = [d \in Dirs |-> IF d \in Cloned THEN Number[d] ELSE 0]
        /\ repos = Cardinality(Cloned)
        /\ ws = [n \in Names |-> IF n = own THEN Number[First] ELSE 0]
        /\ needed = {} /\ stale = {} /\ keys = {own}
        /\ ssh = [d \in Dirs |-> IF d = First THEN own ELSE None]
    BY DEF Init
  <2>2. \A d \in Cloned : Number[d] \in 0..MaxRepos
    BY NumberType, ConstantsAssumption
  <2>3. Cardinality(Cloned) \in 0..MaxRepos /\ 0 \in 0..MaxRepos
    BY NumberType, ConstantsAssumption
  <2>4. \A x \in 0..MaxRepos : x \in 0..Torn
    BY TornType
  <2>5. ws \in [Names -> 0..Torn]
    BY <1>1, <2>1, <2>2, <2>3, <2>4
  <2> QED
    BY <1>1, <2>1, <2>2, <2>3, <2>5 DEF DiskTyped
<1>4. StoreTyped
  <2>1. Cardinality(OldRows) \in Nat /\ Cardinality(OldRows) <= MaxRows
    BY ConstantsAssumption, FS_CardinalityType
  <2>2. OldRows \subseteq Rows
    BY <2>1, ConstantsAssumption DEF Rows
  <2>3. /\ written = Cardinality(OldRows) /\ archives = {} /\ mapping = {}
        /\ rows = [n \in Names |-> IF n = own THEN OldRows ELSE {}]
        /\ task = [n \in Names |-> "none"]
    BY DEF Init
  <2>4. written \in 0..MaxRows
    BY <2>1, <2>3, ConstantsAssumption
  <2> QED
    BY <2>2, <2>3, <2>4 DEF StoreTyped
<1>5. FileTyped
  <2>1. file \in Copies
    BY <1>1, EntryType DEF Init, Copies
  <2> QED
    BY <2>1 DEF Init, FileTyped, Copies
<1>6. LoopInv /\ FillInv
  BY ConstantsAssumption DEF Init, LoopInv, FillInv, Idle
<1> QED
  BY <1>2, <1>3, <1>4, <1>5, <1>6 DEF Typed

-----------------------------------------------------------------------------
(* A request goes on *)

\* r's step: the others stay where they are, and r keeps what it is about or is over.
Hopped(r) ==
    /\ ReqTyped'
    /\ \A o \in Requests : o # r => req'[o] = req[o]
    /\ \/ req'[r] = Idle
       \/ /\ req'[r].op = req[r].op /\ req'[r].name = req[r].name
          /\ req'[r].dir = req[r].dir /\ req'[r].to = req[r].to

LEMMA GoesOn ==
    ASSUME ReqTyped, NEW r \in Requests, NEW at \in Places, Goes(r, at),
           at # "idle", req[r].at # "idle", Allowed(req[r], at)
    PROVE  /\ Hopped(r) /\ req'[r].at = at
           /\ req'[r].op = req[r].op /\ req'[r].name = req[r].name
           /\ req'[r].dir = req[r].dir /\ req'[r].to = req[r].to
           /\ req'[r].flag = req[r].flag /\ req'[r].doc = req[r].doc
<1>1. req' = [req EXCEPT ![r] = [req[r] EXCEPT !.at = at]]
  BY DEF Goes, ReqTyped
<1>2. req[r] \in Requestings /\ Fits(req[r])
  BY DEF ReqTyped
<1>3. PICK q : q = [req[r] EXCEPT !.at = at]
  OBVIOUS
<1>4. /\ q \in Requestings /\ q.at = at /\ q.op = req[r].op /\ q.name = req[r].name
      /\ q.dir = req[r].dir /\ q.to = req[r].to /\ q.flag = req[r].flag
      /\ q.doc = req[r].doc
  BY <1>2, <1>3 DEF Requestings
<1>5. Allowed(q, at) /\ Fits(q)
  <2>1. Allowed(q, at)
    BY <1>4 DEF Allowed
  <2> QED
    BY <1>2, <1>4, <2>1 DEF Fits
<1>6. req'[r] = q /\ \A o \in Requests : o # r => req'[o] = req[o]
  BY <1>1, <1>3 DEF ReqTyped
<1>7. ReqTyped'
  BY <1>1, <1>3, <1>4, <1>5, <1>6 DEF ReqTyped
<1> QED
  BY <1>4, <1>6, <1>7 DEF Hopped

LEMMA ItEnds ==
    ASSUME ReqTyped, NEW r \in Requests, Ends(r)
    PROVE  Hopped(r) /\ req'[r] = Idle
<1>1. req' = [req EXCEPT ![r] = Idle]
  BY DEF Ends
<1>2. req'[r] = Idle /\ \A o \in Requests : o # r => req'[o] = req[o]
  BY <1>1 DEF ReqTyped
<1>3. ReqTyped'
  BY <1>1, <1>2, IdleFits DEF ReqTyped
<1> QED
  BY <1>2, <1>3 DEF Hopped

\* Places where a request keeps neither the loop nor the lock.
Plain == Places \ {"store", "drop", "fill"}

LEMMA PlainHop ==
    ASSUME Typed, NEW r \in Requests, Hopped(r), req[r].at \in Plain, req'[r].at \in Plain,
           UNCHANGED <<holder, snap>>
    PROVE  LoopInv' /\ FillInv'
<1>1. \A o \in Requests : \/ req'[o] = req[o]
                          \/ req[o].at \in Plain /\ req'[o].at \in Plain
  BY DEF Hopped
<1>2. LoopInv'
  BY <1>1 DEF Typed, LoopInv, Plain
<1>3. FillInv'
  BY <1>1 DEF Typed, FillInv, Plain
<1> QED
  BY <1>2, <1>3

LEMMA PlainStep ==
    ASSUME Typed, NEW r \in Requests, Hopped(r), req[r].at \in Plain, req'[r].at \in Plain,
           UNCHANGED <<holder, snap>>, DiskTyped', StoreTyped', FileTyped'
    PROVE  Typed'
BY PlainHop DEF Typed, Hopped

LEMMA Stays ==
    ASSUME Typed
    PROVE  /\ UNCHANGED <<diskVars, repos, stale>> => DiskTyped'
           /\ UNCHANGED <<storeVars, taskVars>> => StoreTyped'
           /\ UNCHANGED <<storeVars, task>> => StoreTyped'
           /\ UNCHANGED fileVars => FileTyped' /\ UNCHANGED <<holder, snap>>
<1>1. UNCHANGED <<diskVars, repos, stale>> => DiskTyped'
  BY DEF Typed, DiskTyped, diskVars
<1>2. /\ UNCHANGED <<storeVars, taskVars>> => StoreTyped'
      /\ UNCHANGED <<storeVars, task>> => StoreTyped'
  BY DEF Typed, StoreTyped, storeVars, taskVars
<1>3. UNCHANGED fileVars => FileTyped' /\ UNCHANGED <<holder, snap>>
  BY DEF Typed, FileTyped, fileVars
<1> QED
  BY <1>1, <1>2, <1>3

\* A request at work is about a project and a checkout.
LEMMA AtWork ==
    ASSUME ReqTyped, NEW r \in Requests
    PROVE  /\ req[r] \in Requestings /\ Fits(req[r])
           /\ req[r].at \in Places /\ Allowed(req[r], req[r].at)
           /\ req[r].at # "idle" => req[r].name \in Names /\ req[r].dir \in Dirs
           /\ req[r].at \in {"parked", "unhook", "rehook", "putback", "point", "follow"}
                => req[r].to \in Dirs
<1>1. req[r] \in Requestings /\ Fits(req[r])
  BY DEF ReqTyped
<1> QED
  BY <1>1 DEF Requestings, Fits, Allowed, Places

\* A request of operation op comes in, where it begins and what it has asked about.
Begun(r, op, n, d, to, flag, at) ==
    /\ Begins(r, op, n, d, to, flag, at)
    /\ at \in {"make", "detect", "collect", "parked", "key", "read"}
    /\ Allowed([op |-> op, flag |-> flag, to |-> to], at)
    /\ at = "make" => known[n] = None
    /\ at = "detect" => op = "add"
    /\ at \notin {"make", "detect"} => known[n] # None /\ d = known[n].live
    /\ op \in {"remove", "erase", "move"} => ~InFlight(n)
    /\ op = "move" => at = "parked"

LEMMA BeginBegun ==
    ASSUME Typed, NEW r \in Requests, Begin(r)
    PROVE  \E op \in Ops, n \in Names, d \in Dirs, to \in Dirs \union {None}, flag \in BOOLEAN,
              at \in Plain : Begun(r, op, n, d, to, flag, at)
<1> USE DEF Ops, Adding, Leaving, Plain, Places
<1>1. Basename \in [Dirs -> Names] /\ \A d \in Dirs : d # None
  BY ConstantsAssumption
<1>2. \A n \in Names : known[n] # None => known[n].live \in Dirs
  BY EntryType DEF Typed, FileTyped, Copies
<1>3. CASE \E d \in Dirs, f \in BOOLEAN :
              BeginCreate(r, d, f) \/ BeginClone(r, d, f) \/ BeginAdd(r, d, f)
  <2>1. PICK d \in Dirs, f \in BOOLEAN :
            BeginCreate(r, d, f) \/ BeginClone(r, d, f) \/ BeginAdd(r, d, f)
    BY <1>3
  <2>2. CASE BeginCreate(r, d, f)
    <3>1. Begun(r, "create", Basename[d], d, None, f, "make")
      BY <1>1, <2>2 DEF BeginCreate, Begun, Allowed
    <3> QED
      BY <1>1, <3>1
  <2>3. CASE BeginClone(r, d, f)
    <3>1. Begun(r, "clone", Basename[d], d, None, f, "make")
      BY <1>1, <2>3 DEF BeginClone, Begun, Allowed
    <3> QED
      BY <1>1, <3>1
  <2>4. CASE BeginAdd(r, d, f)
    <3>1. Begun(r, "add", Basename[d], d, None, f, "detect")
      BY <1>1, <2>4 DEF BeginAdd, Begun, Allowed
    <3> QED
      BY <1>1, <3>1
  <2> QED
    BY <2>1, <2>2, <2>3, <2>4
<1>4. CASE \E n \in Names, f \in BOOLEAN :
              BeginRemove(r, n, f) \/ BeginErase(r, n, f) \/ BeginKey(r, n, f)
  <2>1. PICK n \in Names, f \in BOOLEAN :
            BeginRemove(r, n, f) \/ BeginErase(r, n, f) \/ BeginKey(r, n, f)
    BY <1>4
  <2>2. CASE BeginRemove(r, n, f)
    <3>1. Begun(r, "remove", n, known[n].live, None, f, "collect") /\ known[n].live \in Dirs
      BY <1>2, <2>2 DEF BeginRemove, Begun, Allowed
    <3> QED
      BY <3>1
  <2>3. CASE BeginErase(r, n, f)
    <3>1. Begun(r, "erase", n, known[n].live, None, f, "collect") /\ known[n].live \in Dirs
      BY <1>2, <2>3 DEF BeginErase, Begun, Allowed
    <3> QED
      BY <3>1
  <2>4. CASE BeginKey(r, n, f)
    <3>1. Begun(r, "key", n, known[n].live, None, f, "key") /\ known[n].live \in Dirs
      BY <1>2, <2>4 DEF BeginKey, Begun, Allowed
    <3> QED
      BY <3>1
  <2> QED
    BY <2>1, <2>2, <2>3, <2>4
<1>5. CASE \E n \in Names : BeginChecks(r, n) \/ \E d \in Dirs : BeginMove(r, n, d)
  <2>1. PICK n \in Names : BeginChecks(r, n) \/ \E d \in Dirs : BeginMove(r, n, d)
    BY <1>5
  <2>2. CASE BeginChecks(r, n)
    <3>1. Begun(r, "checks", n, known[n].live, None, FALSE, "read") /\ known[n].live \in Dirs
      BY <1>2, <2>2 DEF BeginChecks, Begun, Allowed
    <3> QED
      BY <3>1
  <2>3. CASE \E d \in Dirs : BeginMove(r, n, d)
    <3>1. PICK d \in Dirs : BeginMove(r, n, d)
      BY <2>3
    <3>2. Begun(r, "move", n, known[n].live, d, FALSE, "parked") /\ known[n].live \in Dirs
      BY <1>1, <1>2, <3>1 DEF BeginMove, Begun, Allowed
    <3> QED
      BY <3>2
  <2> QED
    BY <2>1, <2>2, <2>3
<1> QED
  BY <1>3, <1>4, <1>5 DEF Begin

LEMMA BegunReq ==
    ASSUME ReqTyped, NEW r \in Requests, NEW op \in Ops, NEW n \in Names, NEW d \in Dirs,
           NEW to \in Dirs \union {None}, NEW flag \in BOOLEAN, NEW at \in Plain,
           Begun(r, op, n, d, to, flag, at)
    PROVE  /\ ReqTyped' /\ req[r] = Idle
           /\ req'[r].op = op /\ req'[r].at = at /\ req'[r].name = n /\ req'[r].dir = d
           /\ req'[r].to = to /\ req'[r].flag = flag
           /\ \A o \in Requests : o # r => req'[o] = req[o]
<1>1. PICK q : q = [Idle EXCEPT !.op = op, !.at = at, !.name = n, !.dir = d, !.to = to,
                                !.flag = flag]
  OBVIOUS
<1>2. /\ q \in Requestings /\ q.op = op /\ q.at = at /\ q.name = n /\ q.dir = d
      /\ q.to = to /\ q.flag = flag
  BY <1>1 DEF Idle, Requestings, Plain
<1>3. Fits(q)
  <2>1. Allowed(q, at) /\ at # "idle"
    BY <1>2 DEF Begun, Allowed
  <2>2. n # None /\ d # None
    BY ConstantsAssumption
  <2> QED
    BY <1>2, <2>1, <2>2 DEF Fits
<1>4. req[r] = Idle /\ req' = [req EXCEPT ![r] = q]
  BY <1>1 DEF Begun, Begins
<1>5. ReqTyped' /\ req'[r] = q /\ \A o \in Requests : o # r => req'[o] = req[o]
  BY <1>2, <1>3, <1>4 DEF ReqTyped
<1> QED
  BY <1>2, <1>4, <1>5

LEMMA BeginTyped ==
    ASSUME Typed, NEW r \in Requests, Begin(r)
    PROVE  /\ Typed' /\ req'[r].at \in Plain
           /\ \A o \in Requests : o # r => req'[o] = req[o]
           /\ UNCHANGED <<diskVars, fileVars, storeVars, task, repos, stale>>
<1>1. PICK op \in Ops, n \in Names, d \in Dirs, to \in Dirs \union {None}, flag \in BOOLEAN,
           at \in Plain : Begun(r, op, n, d, to, flag, at)
  BY BeginBegun
<1>2. /\ ReqTyped' /\ req[r] = Idle /\ req'[r].at \in Plain
      /\ \A o \in Requests : o # r => req'[o] = req[o]
  BY <1>1, BegunReq DEF Typed
<1>3. UNCHANGED <<diskVars, fileVars, storeVars, task, repos, stale>>
  BY <1>1 DEF Begun, Begins
<1>4. \A o \in Requests : \/ req'[o] = req[o]
                          \/ req[o].at \in Plain /\ req'[o].at \in Plain
  BY <1>2 DEF Idle, Plain, Places
<1>5. LoopInv' /\ FillInv'
  <2>1. UNCHANGED <<holder, snap>>
    BY <1>3 DEF fileVars
  <2>2. LoopInv'
    BY <1>4, <2>1 DEF Typed, LoopInv, Plain
  <2>3. FillInv'
    BY <1>4, <2>1 DEF Typed, FillInv, Plain
  <2> QED
    BY <2>2, <2>3
<1> QED
  BY <1>2, <1>3, <1>5, Stays DEF Typed

-----------------------------------------------------------------------------
(* The types, step by step *)

\* What every step of a request does to it; only three read the file to write it.
LEMMA OnboardsHop ==
    ASSUME Typed, NEW r \in Requests, Onboards(r)
    PROVE  /\ Hopped(r) /\ req'[r].at \in Plain \union {"store"}
           /\ req[r].at # "entry" => req'[r].at \in Plain
<1> DEFINE n == req[r].name
<1> DEFINE d == req[r].dir
<1>0. /\ ReqTyped /\ DiskTyped /\ StoreTyped /\ FileTyped /\ LoopInv /\ FillInv
      /\ req[r].at # "idle" => n \in Names /\ d \in Dirs
      /\ Allowed(req[r], req[r].at) /\ Idle.at \in Plain
      /\ req[r].flag \in BOOLEAN
  BY AtWork DEF Typed, Idle, Plain, Places, Requestings
<1>1. CASE MakeRepository(r)
  <2>1. \/ Goes(r, "github") /\ Allowed(req[r], "github")
        \/ Goes(r, "detect") /\ Allowed(req[r], "detect")
        \/ Ends(r)
    BY <1>0, <1>1 DEF MakeRepository, Allowed, Adding
  <2> QED
    BY <1>0, <1>1, <2>1, GoesOn, ItEnds DEF MakeRepository, Plain, Places
<1>2. CASE ConnectGithub(r)
  <2>1. CASE Goes(r, "detect")
    <3>1. Allowed(req[r], "detect")
      BY <1>0, <1>2 DEF ConnectGithub, Allowed, Adding
    <3> QED
      BY <1>0, <1>2, <2>1, <3>1, GoesOn DEF ConnectGithub, Plain, Places
  <2>2. CASE \E b \in BOOLEAN : req' = [req EXCEPT ![r].at = "detect", ![r].flag = b]
    <3>1. PICK b \in BOOLEAN : req' = [req EXCEPT ![r].at = "detect", ![r].flag = b]
      BY <2>2
    <3>2. PICK q : q = [req[r] EXCEPT !.at = "detect", !.flag = b]
      OBVIOUS
    <3>3. req[r] \in Requestings /\ req[r].op = "create"
      BY <1>0, <1>2 DEF ConnectGithub, Allowed, ReqTyped
    <3>4. /\ q \in Requestings /\ q.op = "create" /\ q.at = "detect"
          /\ q.name = n /\ q.dir = d /\ q.to = req[r].to
      BY <3>2, <3>3 DEF Requestings, Places
    <3>5. Fits(q)
      BY <1>0, <1>2, <3>4, ConstantsAssumption DEF ConnectGithub, Fits, Allowed, Adding
    <3>6. req' = [req EXCEPT ![r] = q]
      BY <3>1, <3>2 
    <3>7. ReqTyped' /\ req'[r] = q /\ \A o \in Requests : o # r => req'[o] = req[o]
      BY <1>0, <3>4, <3>5, <3>6 DEF ReqTyped
    <3> QED
      BY <1>2, <3>3, <3>4, <3>7 DEF ConnectGithub, Hopped, Plain, Places
  <2> QED
    BY <1>2, <2>1, <2>2 DEF ConnectGithub
<1>3. CASE Detect(r)
  <2>1. \/ Goes(r, "tree") /\ Allowed(req[r], "tree")
        \/ Goes(r, "rollback") /\ Allowed(req[r], "rollback")
        \/ Ends(r)
    BY <1>0, <1>3 DEF Detect, Allowed
  <2> QED
    BY <1>0, <1>3, <2>1, GoesOn, ItEnds DEF Detect, Plain, Places
<1>4. CASE CreateWorktree(r)
  <2>1. \/ Goes(r, "entry") /\ Allowed(req[r], "entry")
        \/ Goes(r, "undo") /\ Allowed(req[r], "undo")
    BY <1>0, <1>4 DEF CreateWorktree, Allowed
  <2> QED
    BY <1>0, <1>4, <2>1, GoesOn DEF CreateWorktree, Plain, Places
<1>5. CASE ReadToAdd(r)
  <2>1. \/ Goes(r, "store") /\ Allowed(req[r], "store")
        \/ Goes(r, "undo") /\ Allowed(req[r], "undo")
    BY <1>0, <1>5 DEF ReadToAdd, Allowed
  <2> QED
    BY <1>0, <1>5, <2>1, GoesOn DEF ReadToAdd, Plain, Places
<1>6. CASE WriteAdded(r)
  <2>1. Goes(r, "load") /\ Allowed(req[r], "load") /\ req[r].at = "store"
    BY <1>0, <1>6 DEF WriteAdded, Allowed
  <2> QED
    BY <1>0, <2>1, GoesOn DEF Plain, Places
<1>7. CASE Load(r)
  <2>1. \/ Goes(r, "restore") /\ Allowed(req[r], "restore")
        \/ Ends(r)
    BY <1>0, <1>7 DEF Load, Allowed
  <2> QED
    BY <1>0, <1>7, <2>1, GoesOn, ItEnds DEF Load, Plain, Places
<1>8. CASE Restore(r)
  BY <1>0, <1>8, ItEnds DEF Restore, Plain, Places
<1>9. CASE Undo(r)
  <2>1. \/ Goes(r, "rollback") /\ Allowed(req[r], "rollback")
        \/ Ends(r)
    BY <1>0, <1>9 DEF Undo, Allowed
  <2> QED
    BY <1>0, <1>9, <2>1, GoesOn, ItEnds DEF Undo, Plain, Places
<1>10. CASE Rollback(r)
  BY <1>0, <1>10, ItEnds DEF Rollback, Plain, Places
<1> QED
  BY <1>1, <1>2, <1>3, <1>4, <1>5, <1>6, <1>7, <1>8, <1>9, <1>10 DEF Onboards

LEMMA RemovesHop ==
    ASSUME Typed, NEW r \in Requests, Removes(r)
    PROVE  /\ Hopped(r) /\ req'[r].at \in Plain \union {"drop"}
           /\ req[r].at # "entries" => req'[r].at \in Plain
<1> DEFINE n == req[r].name
<1> DEFINE d == req[r].dir
<1>0. /\ ReqTyped /\ DiskTyped /\ StoreTyped /\ FileTyped /\ LoopInv /\ FillInv
      /\ req[r].at # "idle" => n \in Names /\ d \in Dirs
      /\ Allowed(req[r], req[r].at) /\ Idle.at \in Plain /\ 0 \in 0..MaxRepos
  BY AtWork, ConstantsAssumption DEF Typed, Idle, Plain, Places
<1>1. CASE Collect(r)
  <2>1. CASE Ends(r)
    BY <1>0, <1>1, <2>1, ItEnds DEF Collect, Plain, Places
  <2>2. CASE Goes(r, "purge")
    <3>1. Allowed(req[r], "purge")
      BY <1>0, <1>1 DEF Collect, Allowed
    <3> QED
      BY <1>0, <1>1, <2>2, <3>1, GoesOn DEF Collect, Plain, Places
  <2>3. CASE req' = [req EXCEPT ![r].at = "purge", ![r].doc = Page(n)]
    <3>1. PICK q : q = [req[r] EXCEPT !.at = "purge", !.doc = Page(n)]
      OBVIOUS
    <3>2. req[r] \in Requestings /\ req[r].op \in Leaving /\ Page(n) \subseteq Rows
      BY <1>0, <1>1 DEF Collect, Allowed, ReqTyped, Page, StoreTyped
    <3>3. /\ q \in Requestings /\ q.op = req[r].op /\ q.at = "purge"
          /\ q.name = n /\ q.dir = d /\ q.to = req[r].to
      BY <3>1, <3>2 DEF Requestings, Places
    <3>4. Fits(q)
      BY <1>0, <1>1, <3>2, <3>3, ConstantsAssumption DEF Collect, Fits, Allowed
    <3>5. req' = [req EXCEPT ![r] = q]
      BY <2>3, <3>1
    <3>6. ReqTyped' /\ req'[r] = q /\ \A o \in Requests : o # r => req'[o] = req[o]
      BY <1>0, <3>3, <3>4, <3>5 DEF ReqTyped
    <3> QED
      BY <1>1, <3>3, <3>6 DEF Collect, Hopped, Plain, Places
  <2> QED
    BY <1>1, <2>1, <2>2, <2>3 DEF Collect
<1>2. CASE Purge(r)
  <2>1. Goes(r, "detach") /\ Allowed(req[r], "detach") /\ req[r].at = "purge"
    BY <1>0, <1>2 DEF Purge, Allowed
  <2> QED
    BY <1>0, <2>1, GoesOn DEF Plain, Places
<1>3. CASE Detach(r)
  <2>1. Allowed(req[r], "entries") /\ req[r].at = "detach"
    BY <1>0, <1>3 DEF Detach, Allowed
  <2>2. CASE Goes(r, "entries")
    BY <1>0, <2>1, <2>2, GoesOn DEF Plain, Places
  <2>3. CASE Ends(r)
    BY <1>0, <2>1, <2>3, ItEnds
  <2> QED
    BY <1>3, <2>2, <2>3 DEF Detach
<1>4. CASE ReadToDrop(r)
  <2>1. \/ Goes(r, "drop") /\ Allowed(req[r], "drop")
        \/ Goes(r, "erase") /\ Allowed(req[r], "erase")
        \/ Ends(r)
    BY <1>0, <1>4 DEF ReadToDrop, AfterDrop, Allowed
  <2> QED
    BY <1>0, <1>4, <2>1, GoesOn, ItEnds DEF ReadToDrop, Plain, Places
<1>5. CASE WriteDropped(r)
  <2>1. \/ Goes(r, "erase") /\ Allowed(req[r], "erase")
        \/ Ends(r)
    BY <1>0, <1>5 DEF WriteDropped, AfterDrop, Allowed
  <2> QED
    BY <1>0, <1>5, <2>1, GoesOn, ItEnds DEF WriteDropped, Plain, Places
<1>6. CASE Erase(r)
  BY <1>0, <1>6, ItEnds DEF Erase, Plain, Places
<1> QED
  BY <1>1, <1>2, <1>3, <1>4, <1>5, <1>6 DEF Removes

LEMMA MovesHop ==
    ASSUME Typed, NEW r \in Requests, Moves(r)
    PROVE  Hopped(r) /\ req'[r].at \in Plain
<1> DEFINE n == req[r].name
<1> DEFINE d == req[r].dir
<1>0. /\ ReqTyped /\ DiskTyped /\ StoreTyped /\ FileTyped /\ LoopInv /\ FillInv
      /\ req[r].at # "idle" => n \in Names /\ d \in Dirs
      /\ req[r].at \in {"parked", "unhook", "rehook", "putback", "point", "follow"}
           => req[r].to \in Dirs
      /\ Allowed(req[r], req[r].at) /\ Idle.at \in Plain /\ 0 \in 0..MaxRepos
  BY AtWork, ConstantsAssumption DEF Typed, Idle, Plain, Places
<1>1. CASE MoveChecks(r)
  <2>1. \/ Ends(r)
        \/ Goes(r, "unhook") /\ Allowed(req[r], "unhook")
    BY <1>0, <1>1 DEF MoveChecks, Allowed
  <2> QED
    BY <1>0, <1>1, <2>1, GoesOn, ItEnds DEF MoveChecks, Plain, Places
<1>2. CASE Unhook(r)
  <2>1. \/ Ends(r)
        \/ Goes(r, "rehook") /\ Allowed(req[r], "rehook")
    BY <1>0, <1>2 DEF Unhook, Allowed
  <2> QED
    BY <1>0, <1>2, <2>1, GoesOn, ItEnds DEF Unhook, Plain, Places
<1>3. CASE Rehook(r)
  <2>1. \/ Goes(r, "point") /\ Allowed(req[r], "point")
        \/ Goes(r, "putback") /\ Allowed(req[r], "putback")
    BY <1>0, <1>3 DEF Rehook, Allowed
  <2> QED
    BY <1>0, <1>3, <2>1, GoesOn DEF Rehook, Plain, Places
<1>4. CASE PutBack(r)
  BY <1>0, <1>4, ItEnds DEF PutBack, Plain, Places
<1>5. CASE Point(r)
  <2>1. \/ Ends(r)
        \/ Goes(r, "follow") /\ Allowed(req[r], "follow")
    BY <1>0, <1>5 DEF Point, Allowed
  <2> QED
    BY <1>0, <1>5, <2>1, GoesOn, ItEnds DEF Point, Plain, Places
<1>6. CASE FollowKey(r)
  BY <1>0, <1>6, ItEnds DEF FollowKey, Plain, Places
<1> QED
  BY <1>1, <1>2, <1>3, <1>4, <1>5, <1>6 DEF Moves

LEMMA ChangesHop ==
    ASSUME Typed, NEW r \in Requests, Changes(r)
    PROVE  /\ Hopped(r) /\ req'[r].at \in Plain \union {"fill"}
           /\ req[r].at # "read" => req'[r].at \in Plain
<1> DEFINE n == req[r].name
<1> DEFINE d == req[r].dir
<1>0. /\ ReqTyped /\ DiskTyped /\ StoreTyped /\ FileTyped /\ LoopInv /\ FillInv
      /\ req[r].at # "idle" => n \in Names /\ d \in Dirs
      /\ Allowed(req[r], req[r].at) /\ Idle.at \in Plain
  BY AtWork DEF Typed, Idle, Plain, Places
<1>1. CASE ChangeKey(r)
  BY <1>0, <1>1, ItEnds DEF ChangeKey, Plain, Places
<1>2. CASE ReadToFill(r)
  <2>1. \/ Goes(r, "fill") /\ Allowed(req[r], "fill")
        \/ Ends(r)
    BY <1>0, <1>2 DEF ReadToFill, Allowed
  <2> QED
    BY <1>0, <1>2, <2>1, GoesOn, ItEnds DEF ReadToFill, Plain, Places
<1>3. CASE WriteFilled(r)
  BY <1>0, <1>3, ItEnds DEF WriteFilled
<1> QED
  BY <1>1, <1>2, <1>3 DEF Changes

LEMMA NewRowTyped ==
    ASSUME StoreTyped, NEW n \in Names, NewRow(n)
    PROVE  rows' \in [Names -> SUBSET Rows] /\ written' \in 0..MaxRows
BY ConstantsAssumption DEF StoreTyped, NewRow, Rows

LEMMA OnboardsTyped == ASSUME Typed, NEW r \in Requests, Onboards(r) PROVE Typed'
<1> DEFINE n == req[r].name
<1> DEFINE d == req[r].dir
<1>0. /\ ReqTyped /\ DiskTyped /\ StoreTyped /\ FileTyped /\ LoopInv /\ FillInv
      /\ req[r].at # "idle" => n \in Names /\ d \in Dirs
      /\ Allowed(req[r], req[r].at) /\ Idle.at \in Plain
      /\ req[r].flag \in BOOLEAN
  BY AtWork DEF Typed, Idle, Plain, Places, Requestings
<1>1. CASE MakeRepository(r)
  <2>1. Hopped(r) /\ req'[r].at \in Plain /\ req[r].at \in Plain
    BY <1>0, <1>1, OnboardsHop DEF MakeRepository, Plain, Places
  <2>2. DiskTyped'
    <3>1. UNCHANGED <<ws, keys, ssh, stale>>
      BY <1>1 DEF MakeRepository
    <3>2. \/ UNCHANGED <<disk, needed, repos>>
          \/ /\ repos < MaxRepos /\ repos' = repos + 1 /\ disk' = [disk EXCEPT ![d] = repos']
             /\ needed' \in {needed \union {d}, needed \ {d}}
      BY <1>1 DEF MakeRepository
    <3>3. CASE UNCHANGED <<disk, needed, repos>>
      BY <1>0, <3>1, <3>3 DEF DiskTyped
    <3>4. CASE /\ repos < MaxRepos /\ repos' = repos + 1 /\ disk' = [disk EXCEPT ![d] = repos']
               /\ needed' \in {needed \union {d}, needed \ {d}}
      <4>1. d \in Dirs
        BY <1>0, <1>1 DEF MakeRepository
      <4>2. repos' \in 0..MaxRepos
        BY <1>0, <3>4, ConstantsAssumption DEF DiskTyped
      <4>3. disk' \in [Dirs -> 0..MaxRepos]
        BY <1>0, <3>4, <4>2 DEF DiskTyped
      <4>4. needed' \subseteq Dirs
        BY <1>0, <3>4, <4>1 DEF DiskTyped
      <4> QED
        BY <1>0, <3>1, <4>2, <4>3, <4>4 DEF DiskTyped
    <3> QED
      BY <3>2, <3>3, <3>4
  <2>3. UNCHANGED <<storeVars, taskVars, fileVars>>
    BY <1>1 DEF MakeRepository
  <2> QED
    BY <2>1, <2>2, <2>3, PlainStep, Stays
<1>2. CASE ConnectGithub(r)
  <2>1. Hopped(r) /\ req'[r].at \in Plain /\ req[r].at \in Plain
    BY <1>0, <1>2, OnboardsHop DEF ConnectGithub, Plain, Places
  <2>2. DiskTyped'
    <3>1. n \in Names /\ d \in Dirs /\ UNCHANGED <<disk, ws, repos>>
      BY <1>0, <1>2 DEF ConnectGithub
    <3>2. /\ keys' \in {keys, keys \union {n}, keys \ {n}}
          /\ needed' \in {needed, needed \ {d}}
      BY <1>2 DEF ConnectGithub, MintFails
    <3>3. \/ Uses(n, d) \/ UNCHANGED <<ssh, stale>>
          \/ UNCHANGED ssh /\ stale' = stale \union {d}
      BY <1>2 DEF ConnectGithub, MintFails
    <3> QED
      BY <1>0, <3>1, <3>2, <3>3 DEF DiskTyped, Uses
  <2>3. UNCHANGED <<storeVars, taskVars, fileVars>>
    BY <1>2 DEF ConnectGithub
  <2> QED
    BY <2>1, <2>2, <2>3, PlainStep, Stays
<1>3. CASE Detect(r)
  <2>1. Hopped(r) /\ req'[r].at \in Plain /\ req[r].at \in Plain
    BY <1>0, <1>3, OnboardsHop DEF Detect, Plain, Places
  <2>3. UNCHANGED <<diskVars, repos, stale, storeVars, taskVars, fileVars>>
    BY <1>3 DEF Detect
  <2> QED
    BY <2>1, <2>3, PlainStep, Stays
<1>4. CASE CreateWorktree(r)
  <2>1. Hopped(r) /\ req'[r].at \in Plain /\ req[r].at \in Plain
    BY <1>0, <1>4, OnboardsHop DEF CreateWorktree, Plain, Places
  <2>2. DiskTyped'
    BY <1>0, <1>4, TornType DEF CreateWorktree, DiskTyped, Worktree, Tears
  <2>3. UNCHANGED <<storeVars, taskVars, fileVars>>
    BY <1>4 DEF CreateWorktree
  <2> QED
    BY <2>1, <2>2, <2>3, PlainStep, Stays
<1>5. CASE ReadToAdd(r)
  <2>1. /\ Hopped(r) /\ req[r].at = "entry" /\ LockFree
        /\ req'[r].at \in Plain \union {"store"}
    BY <1>0, <1>5, OnboardsHop DEF ReadToAdd
  <2>2. LoopInv'
    BY <1>0, <1>5, <2>1 DEF ReadToAdd, LoopInv, LockFree, Hopped, Plain
  <2>3. FileTyped' /\ UNCHANGED file
    BY <1>0, <1>5 DEF ReadToAdd, FileTyped
  <2>4. FillInv'
    BY <1>0, <1>5, <2>1 DEF ReadToAdd, FillInv, Hopped, Plain, FileTyped
  <2> QED
    BY <1>0, <1>5, <2>1, <2>2, <2>3, <2>4, Stays DEF ReadToAdd, Hopped, Typed, taskVars
<1>6. CASE WriteAdded(r)
  <2>1. Hopped(r) /\ req[r].at = "store" /\ req'[r].at = "load"
    <3>1. Goes(r, "load") /\ Allowed(req[r], "load") /\ req[r].at = "store"
      BY <1>0, <1>6 DEF WriteAdded, Allowed
    <3> QED
      BY <1>0, <3>1, GoesOn DEF Places
  <2>2. LoopInv'
    BY <1>0, <1>6, <2>1 DEF WriteAdded, LoopInv, Hopped
  <2>3. /\ file' = [snap[r] EXCEPT ![n] = [live |-> d, checks |-> FALSE]]
        /\ snap' = [snap EXCEPT ![r] = [m \in Names |-> None]]
    BY <1>6 DEF WriteAdded, Rewrites
  <2>4. FileTyped'
    <3>1. [live |-> d, checks |-> FALSE] \in Entries
      BY <1>0, <2>1, EntryType
    <3> QED
      BY <1>0, <1>6, <2>3, <3>1 DEF WriteAdded, FileTyped, Copies
  <2>5. FillInv'
    BY <1>0, <2>1, <2>3 DEF FillInv, Hopped, FileTyped
  <2> QED
    BY <1>0, <1>6, <2>1, <2>2, <2>4, <2>5, Stays DEF WriteAdded, Hopped, Typed, taskVars
<1>7. CASE Load(r)
  <2>1. Hopped(r) /\ req'[r].at \in Plain /\ req[r].at \in Plain
    BY <1>0, <1>7, OnboardsHop DEF Load, Plain, Places
  <2>2. StoreTyped'
    BY <1>0, <1>7, NewRowTyped DEF Load, StoreTyped, taskVars
  <2>3. FileTyped'
    BY <1>0, <1>7 DEF Load, FileTyped
  <2> QED
    BY <1>7, <2>1, <2>2, <2>3, PlainStep, Stays DEF Load
<1>8. CASE Restore(r)
  <2>1. Hopped(r) /\ req'[r].at \in Plain /\ req[r].at \in Plain
    BY <1>0, <1>8, OnboardsHop DEF Restore, Plain, Places
  <2>2. StoreTyped'
    BY <1>0, <1>8 DEF Restore, StoreTyped, taskVars
  <2>3. UNCHANGED <<diskVars, repos, stale, fileVars>>
    BY <1>8 DEF Restore
  <2> QED
    BY <2>1, <2>2, <2>3, PlainStep, Stays
<1>9. CASE Undo(r)
  <2>1. Hopped(r) /\ req'[r].at \in Plain /\ req[r].at \in Plain
    BY <1>0, <1>9, OnboardsHop DEF Undo, Plain, Places
  <2>3. UNCHANGED <<diskVars, repos, stale, storeVars, taskVars, fileVars>>
    BY <1>9 DEF Undo
  <2> QED
    BY <2>1, <2>3, PlainStep, Stays
<1>10. CASE Rollback(r)
  <2>1. Hopped(r) /\ req'[r].at \in Plain /\ req[r].at \in Plain
    BY <1>0, <1>10, OnboardsHop DEF Rollback, Plain, Places
  <2>2. DiskTyped'
    <3>1. d \in Dirs /\ 0 \in 0..MaxRepos /\ UNCHANGED <<needed, ws, keys, repos>>
      BY <1>0, <1>10, ConstantsAssumption DEF Rollback
    <3>2. disk' \in [Dirs -> 0..MaxRepos] /\ ssh' \in [Dirs -> Names \union {None}]
      BY <1>0, <1>10, <3>1 DEF Rollback, Deleted, DiskTyped
    <3>3. stale' \subseteq Dirs
      BY <1>0, <1>10, <3>1 DEF Rollback, Deleted, DiskTyped
    <3> QED
      BY <1>0, <3>1, <3>2, <3>3 DEF DiskTyped
  <2>3. UNCHANGED <<storeVars, taskVars, fileVars>>
    BY <1>10 DEF Rollback
  <2> QED
    BY <2>1, <2>2, <2>3, PlainStep, Stays
<1> QED
  BY <1>1, <1>2, <1>3, <1>4, <1>5, <1>6, <1>7, <1>8, <1>9, <1>10 DEF Onboards

LEMMA RemovesTyped == ASSUME Typed, NEW r \in Requests, Removes(r) PROVE Typed'
<1> DEFINE n == req[r].name
<1> DEFINE d == req[r].dir
<1>0. /\ ReqTyped /\ DiskTyped /\ StoreTyped /\ FileTyped /\ LoopInv /\ FillInv
      /\ req[r].at # "idle" => n \in Names /\ d \in Dirs
      /\ Allowed(req[r], req[r].at) /\ Idle.at \in Plain /\ 0 \in 0..MaxRepos
  BY AtWork, ConstantsAssumption DEF Typed, Idle, Plain, Places
<1>1. CASE Collect(r)
  <2>1. Hopped(r) /\ req'[r].at \in Plain /\ req[r].at \in Plain
    BY <1>0, <1>1, RemovesHop DEF Collect, Plain, Places
  <2>2. StoreTyped'
    <3>1. Page(n) \subseteq Rows /\ {} \subseteq Rows
      BY <1>0, <1>1 DEF Collect, StoreTyped, Page
    <3>2. archives' \subseteq SUBSET Rows
      BY <1>0, <1>1, <3>1 DEF Collect, StoreTyped
    <3>3. UNCHANGED <<rows, written, mapping, task>>
      BY <1>1 DEF Collect, taskVars
    <3> QED
      BY <1>0, <3>2, <3>3 DEF StoreTyped
  <2>3. UNCHANGED <<diskVars, repos, stale, fileVars>>
    BY <1>1 DEF Collect
  <2> QED
    BY <2>1, <2>2, <2>3, PlainStep, Stays
<1>2. CASE Purge(r)
  <2>1. Hopped(r) /\ req'[r].at \in Plain /\ req[r].at \in Plain
    BY <1>0, <1>2, RemovesHop DEF Purge, Plain, Places
  <2>2. StoreTyped'
    BY <1>0, <1>2 DEF Purge, StoreTyped, taskVars
  <2>3. UNCHANGED <<diskVars, repos, stale, fileVars>>
    BY <1>2 DEF Purge
  <2> QED
    BY <2>1, <2>2, <2>3, PlainStep, Stays
<1>3. CASE Detach(r)
  <2>1. Hopped(r) /\ req'[r].at \in Plain /\ req[r].at \in Plain
    BY <1>0, <1>3, RemovesHop DEF Detach, Plain, Places
  <2>2. DiskTyped'
    BY <1>0, <1>3, TornType DEF Detach, DiskTyped, Tears
  <2>3. UNCHANGED <<storeVars, taskVars, fileVars>>
    BY <1>3 DEF Detach
  <2> QED
    BY <2>1, <2>2, <2>3, PlainStep, Stays
<1>4. CASE ReadToDrop(r)
  <2>1. Hopped(r) /\ req[r].at = "entries" /\ holder = None
    BY <1>0, <1>4, RemovesHop DEF ReadToDrop, Loop, Plain, Places
  <2>2. \/ req'[r].at = "drop" /\ holder' = r /\ snap' = [snap EXCEPT ![r] = file]
        \/ req'[r].at \in Plain /\ UNCHANGED <<holder, snap>>
    <3>0. \/ Goes(r, "drop") /\ holder' = r /\ snap' = [snap EXCEPT ![r] = file]
          \/ AfterDrop(r) /\ UNCHANGED <<holder, snap>>
          \/ Ends(r) /\ UNCHANGED <<holder, snap>>
      BY <1>4 DEF ReadToDrop
    <3>1. CASE Goes(r, "drop") /\ holder' = r /\ snap' = [snap EXCEPT ![r] = file]
      <4>1. Allowed(req[r], "drop")
        BY <1>0, <2>1 DEF Allowed
      <4> QED
        BY <1>0, <2>1, <3>1, <4>1, GoesOn DEF Places
    <3>2. CASE AfterDrop(r) /\ UNCHANGED <<holder, snap>>
      <4>1. Allowed(req[r], "erase")
        BY <1>0, <2>1 DEF Allowed
      <4>2. req'[r].at = "erase" \/ req'[r] = Idle
        BY <1>0, <2>1, <3>2, <4>1, GoesOn, ItEnds DEF AfterDrop, Places
      <4> QED
        BY <1>0, <3>2, <4>2 DEF Plain, Places
    <3>3. CASE Ends(r) /\ UNCHANGED <<holder, snap>>
      BY <1>0, <3>3, ItEnds
    <3> QED
      BY <3>0, <3>1, <3>2, <3>3
  <2>3. LoopInv'
    BY <1>0, <2>1, <2>2, ConstantsAssumption DEF LoopInv, Hopped, Plain
  <2>4. FillInv'
    BY <1>0, <2>1, <2>2 DEF FillInv, Hopped, Plain, FileTyped
  <2>5. FileTyped'
    <3>1. known' \in Copies /\ UNCHANGED file
      BY <1>0, <1>4 DEF ReadToDrop, FileTyped
    <3> QED
      BY <1>0, <2>2, <3>1 DEF FileTyped
  <2>6. DiskTyped'
    <3>1. UNCHANGED <<disk, needed, ws, repos>> /\ n \in Names /\ d \in Dirs
      BY <1>0, <1>4 DEF ReadToDrop
    <3>2. Unmint(n, d) \/ UnmintFails(n, d)
      BY <1>4 DEF ReadToDrop
    <3> QED
      BY <1>0, <3>1, <3>2 DEF Unmint, UnmintFails, Unpointed, DiskTyped
  <2>7. UNCHANGED <<storeVars, taskVars>>
    BY <1>4 DEF ReadToDrop
  <2> QED
    BY <2>1, <2>3, <2>4, <2>5, <2>6, <2>7, Stays DEF Typed, Hopped
<1>5. CASE WriteDropped(r)
  <2>1. Hopped(r) /\ req[r].at = "drop" /\ req'[r].at \in Plain
    BY <1>0, <1>5, RemovesHop DEF WriteDropped, Plain, Places
  <2>2. LoopInv'
    BY <1>0, <1>5, <2>1, ConstantsAssumption DEF WriteDropped, LoopInv, Hopped, Plain
  <2>3. /\ file' = [snap[r] EXCEPT ![n] = None] /\ known' = file'
        /\ snap' = [snap EXCEPT ![r] = [m \in Names |-> None]]
    BY <1>5 DEF WriteDropped, Rewrites
  <2>4. FileTyped'
    BY <1>0, <2>3 DEF FileTyped, Copies
  <2>5. FillInv'
    BY <1>0, <2>1, <2>3 DEF FillInv, Hopped, FileTyped, Plain
  <2>6. UNCHANGED <<diskVars, repos, stale, storeVars, taskVars>>
    BY <1>5 DEF WriteDropped
  <2> QED
    BY <2>1, <2>2, <2>4, <2>5, <2>6, Stays DEF Hopped, Typed
<1>6. CASE Erase(r)
  <2>1. Hopped(r) /\ req'[r].at \in Plain /\ req[r].at \in Plain
    BY <1>0, <1>6, RemovesHop DEF Erase, Plain, Places
  <2>2. DiskTyped'
    BY <1>0, <1>6 DEF Erase, Deleted, DiskTyped
  <2>3. UNCHANGED <<storeVars, taskVars, fileVars>>
    BY <1>6 DEF Erase
  <2> QED
    BY <2>1, <2>2, <2>3, PlainStep, Stays
<1> QED
  BY <1>1, <1>2, <1>3, <1>4, <1>5, <1>6 DEF Removes

LEMMA MovesTyped == ASSUME Typed, NEW r \in Requests, Moves(r) PROVE Typed'
<1> DEFINE n == req[r].name
<1> DEFINE d == req[r].dir
<1>0. /\ ReqTyped /\ DiskTyped /\ StoreTyped /\ FileTyped /\ LoopInv /\ FillInv
      /\ req[r].at # "idle" => n \in Names /\ d \in Dirs
      /\ req[r].at \in {"parked", "unhook", "rehook", "putback", "point", "follow"}
           => req[r].to \in Dirs
      /\ Allowed(req[r], req[r].at) /\ Idle.at \in Plain /\ 0 \in 0..MaxRepos
  BY AtWork, ConstantsAssumption DEF Typed, Idle, Plain, Places
<1>1. CASE MoveChecks(r)
  <2>1. Hopped(r) /\ req'[r].at \in Plain /\ req[r].at \in Plain
    BY <1>0, <1>1, MovesHop DEF MoveChecks, Plain, Places
  <2>2. UNCHANGED <<diskVars, repos, stale, storeVars, task, fileVars>>
    BY <1>1 DEF MoveChecks
  <2> QED
    BY <2>1, <2>2, PlainStep, Stays
<1>2. CASE Unhook(r)
  <2>1. Hopped(r) /\ req'[r].at \in Plain /\ req[r].at \in Plain
    BY <1>0, <1>2, MovesHop DEF Unhook, Plain, Places
  <2>2. DiskTyped'
    BY <1>0, <1>2, TornType DEF Unhook, DiskTyped, Tears
  <2>3. UNCHANGED <<storeVars, taskVars, fileVars>>
    BY <1>2 DEF Unhook
  <2> QED
    BY <2>1, <2>2, <2>3, PlainStep, Stays
<1>3. CASE Rehook(r)
  <2>1. Hopped(r) /\ req'[r].at \in Plain /\ req[r].at \in Plain
    BY <1>0, <1>3, MovesHop DEF Rehook, Plain, Places
  <2>2. DiskTyped'
    BY <1>0, <1>3, TornType DEF Rehook, Worktree, DiskTyped, Tears
  <2>3. UNCHANGED <<storeVars, taskVars, fileVars>>
    BY <1>3 DEF Rehook
  <2> QED
    BY <2>1, <2>2, <2>3, PlainStep, Stays
<1>4. CASE PutBack(r)
  <2>1. Hopped(r) /\ req'[r].at \in Plain /\ req[r].at \in Plain
    BY <1>0, <1>4, MovesHop DEF PutBack, Plain, Places
  <2>2. DiskTyped'
    BY <1>0, <1>4, TornType DEF PutBack, OldTree, DiskTyped, Tears
  <2>3. UNCHANGED <<storeVars, taskVars, fileVars>>
    BY <1>4 DEF PutBack
  <2> QED
    BY <2>1, <2>2, <2>3, PlainStep, Stays
<1>5. CASE Point(r)
  <2>1. Hopped(r) /\ req'[r].at \in Plain /\ req[r].at \in Plain
    BY <1>0, <1>5, MovesHop DEF Point, Plain, Places
  <2>2. DiskTyped'
    BY <1>0, <1>5 DEF Point, DiskTyped, diskVars
  <2>3. FileTyped'
    <3>1. Configured(n) => [file[n] EXCEPT !.live = req[r].to] \in Entries
      BY <1>0, <1>5 DEF Point, Configured, FileTyped, Copies, Entries
    <3>2. \/ file' = [file EXCEPT ![n] = [file[n] EXCEPT !.live = req[r].to]]
             /\ Configured(n) /\ known' = file'
          \/ UNCHANGED <<file, known>>
      BY <1>0, <1>5 DEF Point, FileTyped, Copies
    <3>3. UNCHANGED snap
      BY <1>5 DEF Point
    <3> QED
      BY <1>0, <3>1, <3>2, <3>3 DEF FileTyped, Copies
  <2>4. UNCHANGED <<storeVars, taskVars, holder, snap>>
    BY <1>5 DEF Point
  <2> QED
    BY <2>1, <2>2, <2>3, <2>4, PlainStep, Stays
<1>6. CASE FollowKey(r)
  <2>1. Hopped(r) /\ req'[r].at \in Plain /\ req[r].at \in Plain
    BY <1>0, <1>6, MovesHop DEF FollowKey, Plain, Places
  <2>2. DiskTyped'
    BY <1>0, <1>6 DEF FollowKey, Uses, DiskTyped
  <2>3. UNCHANGED <<storeVars, taskVars, fileVars>>
    BY <1>6 DEF FollowKey
  <2> QED
    BY <2>1, <2>2, <2>3, PlainStep, Stays
<1> QED
  BY <1>1, <1>2, <1>3, <1>4, <1>5, <1>6 DEF Moves

LEMMA ChangesTyped == ASSUME Typed, NEW r \in Requests, Changes(r) PROVE Typed'
<1> DEFINE n == req[r].name
<1> DEFINE d == req[r].dir
<1>0. /\ ReqTyped /\ DiskTyped /\ StoreTyped /\ FileTyped /\ LoopInv /\ FillInv
      /\ req[r].at # "idle" => n \in Names /\ d \in Dirs
      /\ Allowed(req[r], req[r].at) /\ Idle.at \in Plain
  BY AtWork DEF Typed, Idle, Plain, Places
<1>1. CASE ChangeKey(r)
  <2>1. Hopped(r) /\ req'[r].at \in Plain /\ req[r].at \in Plain
    BY <1>0, <1>1, ChangesHop DEF ChangeKey, Plain, Places
  <2>2. DiskTyped'
    <3>1. UNCHANGED <<disk, needed, ws, repos>> /\ n \in Names /\ d \in Dirs
      BY <1>0, <1>1 DEF ChangeKey
    <3>2. Mint(n, d) \/ MintFails(n, d) \/ Unmint(n, d) \/ UnmintFails(n, d)
      BY <1>1 DEF ChangeKey
    <3> QED
      BY <1>0, <3>1, <3>2 DEF Mint, MintFails, Unmint, UnmintFails, Uses, Unpointed, DiskTyped
  <2>3. UNCHANGED <<storeVars, taskVars, fileVars>>
    BY <1>1 DEF ChangeKey
  <2> QED
    BY <2>1, <2>2, <2>3, PlainStep, Stays
<1>2. CASE ReadToFill(r)
  <2>1. Hopped(r) /\ req[r].at = "read" /\ holder = None
    BY <1>0, <1>2, ChangesHop DEF ReadToFill, Loop, Plain, Places
  <2>2. \/ /\ req'[r].at = "fill" /\ req'[r].name = n /\ holder' = r
           /\ snap' = [snap EXCEPT ![r] = file] /\ file[n] # None
        \/ req'[r].at \in Plain /\ UNCHANGED <<holder, snap>>
    <3>1. CASE /\ Goes(r, "fill") /\ holder' = r /\ snap' = [snap EXCEPT ![r] = file]
               /\ Configured(n)
      <4>1. Allowed(req[r], "fill")
        BY <1>0, <2>1 DEF Allowed
      <4> QED
        BY <1>0, <2>1, <3>1, <4>1, GoesOn DEF Places, Configured
    <3>2. CASE Ends(r) /\ UNCHANGED <<holder, snap>>
      BY <1>0, <3>2, ItEnds
    <3> QED
      BY <1>2, <3>1, <3>2 DEF ReadToFill
  <2>3. LoopInv'
    BY <1>0, <2>1, <2>2, ConstantsAssumption DEF LoopInv, Hopped, Plain
  <2>4. FillInv'
    BY <1>0, <2>1, <2>2 DEF FillInv, Hopped, Plain, FileTyped
  <2>5. FileTyped'
    <3>1. UNCHANGED <<file, known>>
      BY <1>2 DEF ReadToFill
    <3> QED
      BY <1>0, <2>2, <3>1 DEF FileTyped
  <2>6. UNCHANGED <<diskVars, repos, stale, storeVars, taskVars>>
    BY <1>2 DEF ReadToFill
  <2> QED
    BY <2>1, <2>3, <2>4, <2>5, <2>6, Stays DEF Typed, Hopped
<1>3. CASE WriteFilled(r)
  <2>1. Hopped(r) /\ req[r].at = "fill" /\ req'[r].at \in Plain
    BY <1>0, <1>3, ChangesHop DEF WriteFilled, Plain, Places
  <2>2. LoopInv'
    BY <1>0, <1>3, <2>1, ConstantsAssumption DEF WriteFilled, LoopInv, Hopped, Plain
  <2>3. /\ file' = [snap[r] EXCEPT ![n] = [snap[r][n] EXCEPT !.checks = TRUE]]
        /\ known' = file'
        /\ snap' = [snap EXCEPT ![r] = [m \in Names |-> None]]
    BY <1>3 DEF WriteFilled, Rewrites
  <2>4. FileTyped'
    <3>1. n \in Names /\ snap[r][n] \in Entries
      BY <1>0, <2>1 DEF FillInv, FileTyped, Copies
    <3>2. [snap[r][n] EXCEPT !.checks = TRUE] \in Entries
      BY <3>1 DEF Entries
    <3> QED
      BY <1>0, <2>3, <3>2 DEF FileTyped, Copies
  <2>5. FillInv'
    BY <1>0, <2>1, <2>3 DEF FillInv, Hopped, FileTyped, Plain
  <2>6. UNCHANGED <<diskVars, repos, stale, storeVars, taskVars>>
    BY <1>3 DEF WriteFilled
  <2> QED
    BY <2>1, <2>2, <2>4, <2>5, <2>6, Stays DEF Hopped, Typed
<1> QED
  BY <1>1, <1>2, <1>3 DEF Changes

LEMMA AroundTyped == ASSUME Typed, NEW n \in Names, Around(n) PROVE Typed'
<1>0. DiskTyped /\ StoreTyped
  BY DEF Typed
<1>1. UNCHANGED req => ReqTyped' /\ (UNCHANGED fileVars => LoopInv' /\ FillInv')
  BY DEF Typed, ReqTyped, LoopInv, FillInv, fileVars
<1>2. CASE StartTask(n)
  <2>1. StoreTyped'
    BY <1>0, <1>2 DEF StartTask, StoreTyped, storeVars
  <2>2. UNCHANGED <<diskVars, repos, stale, fileVars, req>>
    BY <1>2 DEF StartTask
  <2> QED
    BY <1>1, <2>1, <2>2, Stays DEF Typed
<1>6. CASE TaskSaved(n)
  <2>1. StoreTyped'
    BY <1>0, <1>6 DEF TaskSaved, StoreTyped, storeVars
  <2>2. UNCHANGED <<diskVars, repos, stale, fileVars, req>>
    BY <1>6 DEF TaskSaved
  <2> QED
    BY <1>1, <2>1, <2>2, Stays DEF Typed
<1>3. CASE TaskWorks(n)
  <2>1. StoreTyped'
    BY <1>0, <1>3 DEF TaskWorks, StoreTyped, storeVars
  <2>2. UNCHANGED <<diskVars, repos, stale, fileVars, req>>
    BY <1>3 DEF TaskWorks
  <2> QED
    BY <1>1, <2>1, <2>2, Stays DEF Typed
<1>4. CASE TaskRests(n)
  <2>1. StoreTyped'
    <3>1. rows' \in [Names -> SUBSET Rows] /\ written' \in 0..MaxRows
      BY <1>0, <1>4, NewRowTyped DEF TaskRests
    <3>2. UNCHANGED <<archives, mapping>>
      BY <1>4 DEF TaskRests
    <3>3. task' \in [Names -> {"none", "new", "fresh", "working", "parked", "orphan"}]
      BY <1>0, <1>4 DEF TaskRests, StoreTyped
    <3> QED
      BY <1>0, <3>1, <3>2, <3>3 DEF StoreTyped
  <2>2. DiskTyped'
    <3>1. known[n] # None => known[n].live \in Dirs
      BY EntryType DEF Typed, FileTyped, Copies
    <3>2. UNCHANGED <<disk, ws, keys, ssh, repos, stale>> /\ needed' \subseteq Dirs
      BY <1>0, <1>4, <3>1 DEF TaskRests, DiskTyped
    <3> QED
      BY <1>0, <3>2 DEF DiskTyped
  <2>3. UNCHANGED <<fileVars, req>>
    BY <1>4 DEF TaskRests
  <2> QED
    BY <1>1, <2>1, <2>2, <2>3, Stays DEF Typed
<1>5. CASE MapBuilt(n)
  <2>1. StoreTyped'
    <3>1. rows' \in [Names -> SUBSET Rows] /\ written' \in 0..MaxRows
      BY <1>0, <1>5, NewRowTyped DEF MapBuilt
    <3>2. UNCHANGED <<archives, task>> /\ mapping' \subseteq Names
      BY <1>0, <1>5 DEF MapBuilt, taskVars, StoreTyped
    <3> QED
      BY <1>0, <3>1, <3>2 DEF StoreTyped
  <2>2. UNCHANGED <<diskVars, repos, stale, fileVars, req>>
    BY <1>5 DEF MapBuilt
  <2> QED
    BY <1>1, <2>1, <2>2, Stays DEF Typed
<1> QED
  BY <1>2, <1>3, <1>4, <1>5, <1>6 DEF Around

LEMMA CrashTyped == ASSUME Typed, Crash PROVE Typed'
<1>1. ReqTyped'
  BY IdleFits DEF Crash, ReqTyped
<1>2. FileTyped'
  BY DEF Typed, Crash, FileTyped, Copies
<1>3. StoreTyped'
  <2>1. /\ UNCHANGED <<rows, archives, written>> /\ mapping' = {}
        /\ task' = [n \in Names |-> CASE task[n] = "new" -> "none"
                                       [] task[n] \in {"fresh", "working"} -> "orphan"
                                       [] OTHER -> task[n]]
    BY DEF Crash
  <2> QED
    BY <2>1 DEF Typed, StoreTyped
<1>4. LoopInv' /\ FillInv'
  BY ConstantsAssumption DEF Crash, LoopInv, FillInv, Idle
<1>5. UNCHANGED <<diskVars, repos, stale>>
  BY DEF Crash
<1> QED
  BY <1>1, <1>2, <1>3, <1>4, <1>5, Stays DEF Typed

LEMMA StepTyped == Typed /\ [Next]_vars => Typed'
<1> SUFFICES ASSUME Typed, [Next]_vars PROVE Typed'
  OBVIOUS
<1>1. CASE \E r \in Requests : Begin(r) \/ Onboards(r) \/ Removes(r) \/ Moves(r) \/ Changes(r)
  BY <1>1, BeginTyped, OnboardsTyped, RemovesTyped, MovesTyped, ChangesTyped
<1>2. CASE \E n \in Names : Around(n)
  BY <1>2, AroundTyped
<1>3. CASE Crash
  BY <1>3, CrashTyped
<1>4. CASE UNCHANGED vars
  <2>1. UNCHANGED <<diskVars, repos, stale, fileVars, storeVars, taskVars, req>>
    BY <1>4 DEF vars, diskVars, fileVars, storeVars, taskVars
  <2>2. ReqTyped' /\ LoopInv' /\ FillInv'
    BY <2>1 DEF Typed, ReqTyped, LoopInv, FillInv, fileVars
  <2> QED
    BY <2>1, <2>2, Stays DEF Typed
<1> QED
  BY <1>1, <1>2, <1>3, <1>4 DEF Next

LEMMA TypedIsTypeOK == Typed => TypeOK
<1> SUFFICES ASSUME Typed PROVE TypeOK
  OBVIOUS
<1>1. Cardinality({r \in Requests : req[r].at = "store"}) <= 1
  <2> DEFINE S == {r \in Requests : req[r].at = "store"}
  <2>1. CASE S = {}
    BY <2>1, FS_EmptySet
  <2>2. CASE S # {}
    <3>1. PICK r \in S : TRUE
      BY <2>2
    <3>2. S = {r}
      BY <3>1 DEF Typed, LoopInv
    <3>3. Cardinality({r}) = 1
      BY FS_Singleton
    <3> QED
      BY <3>2, <3>3
  <2> QED
    BY <2>1, <2>2
<1>2. \A r \in Requests : (holder = r) <=> req[r].at \in {"drop", "fill"}
  BY DEF Typed, LoopInv
<1>3. /\ disk \in [Dirs -> 0..MaxRepos] /\ needed \subseteq Dirs
      /\ ws \in [Names -> 0..Torn]
      /\ keys \subseteq Names /\ ssh \in [Dirs -> Names \union {None}]
  BY DEF Typed, DiskTyped
<1>4. /\ file \in Copies /\ known \in Copies
      /\ \A r \in Requests : snap[r] \in Copies
  BY DEF Typed, FileTyped
<1>5. /\ \A n \in Names : /\ rows[n] \subseteq Rows
                          /\ task[n] \in {"none", "new", "fresh", "working", "parked", "orphan"}
      /\ \A a \in archives : a \subseteq Rows
      /\ mapping \subseteq Names
  BY DEF Typed, StoreTyped
<1> QED
  BY <1>1, <1>2, <1>3, <1>4, <1>5 DEF TypeOK, Copies

LEMMA AlwaysTyped == Spec => []Typed
BY InitTyped, StepTyped, PTL DEF Spec

\* Every variable stays in its type, only what runs on the loop between reading and
\* writing projects.json keeps it, and one request at a time holds the file's lock.
THEOREM TypeCorrect == Spec => []TypeOK
BY AlwaysTyped, TypedIsTypeOK, PTL

-----------------------------------------------------------------------------
(* projects.json: whose changes are lost to whom *)

\* What a copy of the file lacks, that others changed since it was read: who holds the
\* lock only meets a rewrite that does not take it, and who keeps the loop only an
\* onboarding's, which writes in a thread.
FileInv ==
    \A r \in Requests : \A m \in Names : m # req[r].name /\ file[m] # snap[r][m] =>
        /\ req[r].at = "store" => wrote[m] \in {"drop", "fill"}
        /\ req[r].at \in {"drop", "fill"} => wrote[m] = "add"

Writers == {"add", "drop", "fill", "move"}

FileIInv == Typed /\ wrote \in [Names -> Writers] /\ FileInv /\ EntriesAreKept

\* Writing: the places that write the file, and what each calls itself.
Writing(r, op) ==
    \/ req[r].at = "store" /\ op = "add"
    \/ req[r].at = "drop" /\ op = "drop"
    \/ req[r].at = "fill" /\ op = "fill"

LEMMA RewritesKeep ==
    ASSUME FileIInv, NEW r \in Requests, NEW op \in Writers, NEW entry,
           Writing(r, op), Rewrites(r, req[r].name, op, entry),
           Hopped(r), req'[r].at \in Plain
    PROVE  wrote' \in [Names -> Writers] /\ FileInv' /\ EntriesAreKept'
<1> DEFINE n == req[r].name
<1> DEFINE Others == {m \in Names \ {n} : file[m] # snap[r][m]}
<1>0. /\ file \in Copies /\ snap \in [Requests -> Copies] /\ n \in Names
      /\ wrote \in [Names -> Writers] /\ LoopInv
  BY AtWork DEF FileIInv, Typed, FileTyped, Writing
<1>1. /\ \A m \in Names : m # n => file'[m] = snap[r][m]
      /\ wrote' = [m \in Names |-> IF m \in Others \union {n} THEN op ELSE wrote[m]]
      /\ vanished' = vanished \union {<<op, wrote[m], m>> : m \in Others}
      /\ \A o \in Requests : o # r => snap'[o] = snap[o]
  BY <1>0 DEF Rewrites, FileTyped, Copies
<1>2. \A m \in Names : m # n => \/ file'[m] = file[m] /\ wrote'[m] = wrote[m]
                             \/ wrote'[m] = op
  BY <1>1
<1>3. wrote'[n] = op
  BY <1>0, <1>1
<1>4. FileInv'
  <2> SUFFICES ASSUME NEW o \in Requests, NEW m \in Names,
                      m # req'[o].name, file'[m] # snap'[o][m]
               PROVE  /\ req'[o].at = "store" => wrote'[m] \in {"drop", "fill"}
                      /\ req'[o].at \in {"drop", "fill"} => wrote'[m] = "add"
    BY DEF FileInv
  <2>1. CASE o = r
    BY <2>1 DEF Plain
  <2>2. CASE o # r
    <3>1. req'[o] = req[o] /\ snap'[o] = snap[o]
      BY <1>1, <2>2 DEF Hopped
    <3>2. /\ req[o].at = "store" => op \in {"drop", "fill"}
          /\ req[o].at \in {"drop", "fill"} => op = "add"
      BY <1>0, <2>2 DEF Writing, LoopInv
    <3>3. wrote'[m] = op \/ (file'[m] = file[m] /\ wrote'[m] = wrote[m])
      BY <1>2, <1>3
    <3> QED
      BY <3>1, <3>2, <3>3 DEF FileIInv, FileInv
  <2> QED
    BY <2>1, <2>2
<1>5. EntriesAreKept'
  <2> SUFFICES ASSUME NEW v \in vanished'
               PROVE  \/ v[1] = "add" /\ v[2] \in {"drop", "fill"}
                      \/ v[2] = "add" /\ v[1] \in {"drop", "fill"}
    BY DEF EntriesAreKept
  <2>1. CASE v \in vanished
    BY <2>1 DEF FileIInv, EntriesAreKept
  <2>2. CASE \E m \in Others : v = <<op, wrote[m], m>>
    <3>1. PICK m \in Others : v = <<op, wrote[m], m>>
      BY <2>2
    <3>2. v[1] = op /\ v[2] = wrote[m]
      BY <3>1
    <3>3. /\ req[r].at = "store" => wrote[m] \in {"drop", "fill"}
          /\ req[r].at \in {"drop", "fill"} => wrote[m] = "add"
      BY DEF FileIInv, FileInv
    <3> QED
      BY <3>2, <3>3 DEF Writing
  <2> QED
    BY <1>1, <2>1, <2>2
<1>6. wrote' \in [Names -> Writers]
  BY <1>0, <1>1
<1> QED
  BY <1>4, <1>5, <1>6

\* A step that neither writes the file nor reads it to write it.
LEMMA FileAside ==
    ASSUME FileIInv, NEW r \in Requests, req'[r].at \in Plain,
           \A o \in Requests : o # r => req'[o] = req[o],
           UNCHANGED <<file, snap, wrote, vanished>>
    PROVE  wrote' \in [Names -> Writers] /\ FileInv' /\ EntriesAreKept'
<1>1. FileInv'
  BY DEF FileIInv, FileInv, Plain
<1> QED
  BY <1>1 DEF FileIInv, EntriesAreKept

\* r reads the file, to write it in its next step.
LEMMA ReadsToWrite ==
    ASSUME FileIInv, NEW r \in Requests, Hopped(r),
           snap' = [snap EXCEPT ![r] = file], UNCHANGED <<file, wrote, vanished>>
    PROVE  wrote' \in [Names -> Writers] /\ FileInv' /\ EntriesAreKept'
<1>1. \A o \in Requests : o # r => req'[o] = req[o] /\ snap'[o] = snap[o]
  BY DEF Hopped
<1>2. snap'[r] = file
  BY DEF FileIInv, Typed, FileTyped
<1>3. FileInv'
  BY <1>1, <1>2 DEF FileIInv, FileInv
<1> QED
  BY <1>3 DEF FileIInv, EntriesAreKept

\* A move takes the lock and the loop: nobody has a copy of the file then.
LEMMA PointKeeps ==
    ASSUME FileIInv, NEW r \in Requests, Hopped(r), req'[r].at \in Plain, Point(r)
    PROVE  wrote' \in [Names -> Writers] /\ FileInv' /\ EntriesAreKept'
<1>1. \A o \in Requests : req[o].at \notin {"store", "drop", "fill"}
  BY ConstantsAssumption DEF Point, Loop, LockFree, FileIInv, Typed, LoopInv
<1>2. \A o \in Requests : req'[o].at \notin {"store", "drop", "fill"}
  BY <1>1 DEF Hopped, Plain
<1>3. UNCHANGED vanished /\ wrote' \in [Names -> Writers]
  BY DEF Point, FileIInv, Writers
<1> QED
  BY <1>2, <1>3 DEF FileIInv, FileInv, EntriesAreKept

LEMMA FileStep == FileIInv /\ [Next]_vars => FileIInv'
<1> SUFFICES ASSUME FileIInv, [Next]_vars PROVE FileIInv'
  OBVIOUS
<1> DEFINE Kept == wrote' \in [Names -> Writers] /\ FileInv' /\ EntriesAreKept'
<1>0. Typed /\ Typed' /\ Idle.at \in Plain
  BY StepTyped DEF FileIInv, Idle, Plain, Places
<1> SUFFICES Kept
  BY <1>0 DEF FileIInv
<1>1. ASSUME NEW r \in Requests, Begin(r) PROVE Kept
  BY <1>0, <1>1, BeginTyped, FileAside DEF fileVars
<1>2. ASSUME NEW r \in Requests, Onboards(r) PROVE Kept
  <2>1. Hopped(r) /\ (req[r].at # "entry" => req'[r].at \in Plain)
    BY <1>0, <1>2, OnboardsHop
  <2>2. CASE ReadToAdd(r)
    <3>1. UNCHANGED <<file, wrote, vanished>>
      BY <2>2 DEF ReadToAdd
    <3>2. \/ snap' = [snap EXCEPT ![r] = file]
          \/ Goes(r, "undo") /\ UNCHANGED snap
      BY <2>2 DEF ReadToAdd
    <3>3. CASE snap' = [snap EXCEPT ![r] = file]
      BY <2>1, <3>1, <3>3, ReadsToWrite
    <3>4. CASE Goes(r, "undo") /\ UNCHANGED snap
      <4>1. req'[r].at \in Plain
        BY <1>0, <3>4 DEF Goes, Typed, ReqTyped, Requestings, Plain, Places
      <4> QED
        BY <2>1, <3>1, <3>4, <4>1, FileAside DEF Hopped
    <3> QED
      BY <3>2, <3>3, <3>4
  <2>3. CASE WriteAdded(r)
    <3>1. req[r].at = "store"
      BY <2>3 DEF WriteAdded
    <3>2. PICK e : Rewrites(r, req[r].name, "add", e)
      BY <2>3 DEF WriteAdded
    <3> QED
      BY <2>1, <3>1, <3>2, RewritesKeep DEF Writing, Writers
  <2>4. CASE \/ MakeRepository(r) \/ ConnectGithub(r) \/ Detect(r) \/ CreateWorktree(r)
             \/ Load(r) \/ Restore(r) \/ Undo(r) \/ Rollback(r)
    <3>1. UNCHANGED <<file, snap, wrote, vanished>> /\ req[r].at # "entry"
      BY <2>4 DEF MakeRepository, ConnectGithub, Detect, CreateWorktree, Load, Restore, Undo,
                  Rollback, fileVars
    <3> QED
      BY <2>1, <3>1, FileAside DEF Hopped
  <2> QED
    BY <1>2, <2>2, <2>3, <2>4 DEF Onboards
<1>3. ASSUME NEW r \in Requests, Removes(r) PROVE Kept
  <2>1. Hopped(r) /\ (req[r].at # "entries" => req'[r].at \in Plain)
    BY <1>0, <1>3, RemovesHop
  <2>2. CASE ReadToDrop(r)
    <3>1. UNCHANGED <<file, wrote, vanished>>
      BY <2>2 DEF ReadToDrop
    <3>2. \/ snap' = [snap EXCEPT ![r] = file]
          \/ Goes(r, "erase") /\ UNCHANGED snap
          \/ Ends(r) /\ UNCHANGED snap
      BY <2>2 DEF ReadToDrop, AfterDrop
    <3>3. CASE snap' = [snap EXCEPT ![r] = file]
      BY <2>1, <3>1, <3>3, ReadsToWrite
    <3>4. CASE (Goes(r, "erase") \/ Ends(r)) /\ UNCHANGED snap
      <4>1. req'[r].at \in Plain
        BY <1>0, <3>4 DEF Goes, Ends, Typed, ReqTyped, Requestings, Plain, Places
      <4> QED
        BY <2>1, <3>1, <3>4, <4>1, FileAside DEF Hopped
    <3> QED
      BY <3>2, <3>3, <3>4
  <2>3. CASE WriteDropped(r)
    <3>1. req[r].at = "drop" /\ Rewrites(r, req[r].name, "drop", None)
      BY <2>3 DEF WriteDropped
    <3> QED
      BY <2>1, <3>1, RewritesKeep DEF Writing, Writers
  <2>4. CASE Collect(r) \/ Purge(r) \/ Detach(r) \/ Erase(r)
    <3>1. UNCHANGED <<file, snap, wrote, vanished>> /\ req[r].at # "entries"
      BY <2>4 DEF Collect, Purge, Detach, Erase, fileVars
    <3> QED
      BY <2>1, <3>1, FileAside DEF Hopped
  <2> QED
    BY <1>3, <2>2, <2>3, <2>4 DEF Removes
<1>4. ASSUME NEW r \in Requests, Moves(r) PROVE Kept
  <2>1. Hopped(r) /\ req'[r].at \in Plain
    BY <1>0, <1>4, MovesHop
  <2>2. CASE Point(r)
    BY <1>0, <2>1, <2>2, PointKeeps
  <2>3. CASE MoveChecks(r) \/ Unhook(r) \/ Rehook(r) \/ PutBack(r) \/ FollowKey(r)
    <3>1. UNCHANGED <<file, snap, wrote, vanished>>
      BY <2>3 DEF MoveChecks, Unhook, Rehook, PutBack, FollowKey, fileVars
    <3> QED
      BY <2>1, <3>1, FileAside DEF Hopped
  <2> QED
    BY <1>4, <2>2, <2>3 DEF Moves
<1>5. ASSUME NEW r \in Requests, Changes(r) PROVE Kept
  <2>1. Hopped(r) /\ (req[r].at # "read" => req'[r].at \in Plain)
    BY <1>0, <1>5, ChangesHop
  <2>2. CASE ReadToFill(r)
    <3>1. UNCHANGED <<file, wrote, vanished>>
      BY <2>2 DEF ReadToFill
    <3>2. \/ snap' = [snap EXCEPT ![r] = file]
          \/ Ends(r) /\ UNCHANGED snap
      BY <2>2 DEF ReadToFill
    <3>3. CASE snap' = [snap EXCEPT ![r] = file]
      BY <2>1, <3>1, <3>3, ReadsToWrite
    <3>4. CASE Ends(r) /\ UNCHANGED snap
      <4>1. req'[r].at \in Plain
        BY <1>0, <3>4 DEF Ends, Typed, ReqTyped
      <4> QED
        BY <2>1, <3>1, <3>4, <4>1, FileAside DEF Hopped
    <3> QED
      BY <3>2, <3>3, <3>4
  <2>3. CASE WriteFilled(r)
    <3>1. req[r].at = "fill"
      BY <2>3 DEF WriteFilled
    <3>2. PICK e : Rewrites(r, req[r].name, "fill", e)
      BY <2>3 DEF WriteFilled
    <3> QED
      BY <2>1, <3>1, <3>2, RewritesKeep DEF Writing, Writers
  <2>4. CASE ChangeKey(r)
    <3>1. UNCHANGED <<file, snap, wrote, vanished>> /\ req[r].at # "read"
      BY <2>4 DEF ChangeKey, fileVars
    <3> QED
      BY <2>1, <3>1, FileAside DEF Hopped
  <2> QED
    BY <1>5, <2>2, <2>3, <2>4 DEF Changes
<1>6. ASSUME NEW n \in Names, Around(n) PROVE Kept
  <2>1. UNCHANGED <<req, file, snap, wrote, vanished>>
    BY <1>6 DEF Around, StartTask, TaskSaved, TaskWorks, TaskRests, MapBuilt, fileVars
  <2> QED
    BY <2>1 DEF FileIInv, FileInv, EntriesAreKept
<1>7. CASE Crash
  <2>1. UNCHANGED <<wrote, vanished>> /\ \A r \in Requests : req'[r].at = "idle"
    BY <1>7 DEF Crash, Idle
  <2> QED
    BY <2>1 DEF FileIInv, FileInv, EntriesAreKept
<1>8. CASE UNCHANGED vars
  <2>1. UNCHANGED <<req, file, snap, wrote, vanished>>
    BY <1>8 DEF vars
  <2> QED
    BY <2>1 DEF FileIInv, FileInv, EntriesAreKept
<1> QED
  BY <1>1, <1>2, <1>3, <1>4, <1>5, <1>6, <1>7, <1>8 DEF Next

LEMMA FileInit == Init => FileIInv
<1> SUFFICES ASSUME Init PROVE FileIInv
  OBVIOUS
<1>1. vanished = {} /\ wrote = [n \in Names |-> "add"] /\ \A r \in Requests : req[r].at = "idle"
  BY DEF Init, Idle
<1> QED
  BY <1>1, InitTyped DEF FileIInv, FileInv, EntriesAreKept, Writers

\* A change of one project's entry is never lost to a change of another's, except between an
\* onboarding, which holds the lock, and the rewrites that do not take it.
THEOREM EntriesKept == Spec => []EntriesAreKept
<1>1. FileIInv => EntriesAreKept
  BY DEF FileIInv
<1> QED
  BY <1>1, FileInit, FileStep, PTL DEF Spec

-----------------------------------------------------------------------------
(* The Store's rows: what a removal deletes *)

\* What the purge of a removal with an archive will delete is in its archive or exposed.
LostInv ==
    \A r \in Requests : \A n \in Names :
        req[r].name = n /\ req[r].at = "purge" /\ req[r].flag => Page(n) \ req[r].doc \subseteq exposed

LostIInv == Typed /\ LostInv /\ LostOnlyExposed

PageOf(S) == {x \in S : Cardinality({y \in S : y > x}) < PageLimit}

\* A row that comes in moves none up into the page.
LEMMA PageGrows ==
    ASSUME NEW S \in SUBSET Rows, NEW T \in SUBSET Rows, S \subseteq T
    PROVE  PageOf(T) \subseteq PageOf(S) \union (T \ S)
<1> SUFFICES ASSUME NEW x \in PageOf(T), x \in S
             PROVE  Cardinality({y \in S : y > x}) < PageLimit
  BY DEF PageOf
<1> DEFINE Above == {y \in T : y > x}
<1>1. IsFiniteSet(Above) /\ Cardinality(Above) \in Nat
  <2>1. IsFiniteSet(Rows)
    <3>1. 1 \in Int /\ MaxRows \in Int
      BY ConstantsAssumption
    <3> QED
      BY <3>1, FS_Interval DEF Rows
  <2>2. Above \in SUBSET Rows
    OBVIOUS
  <2> QED
    BY <2>1, <2>2, FS_Subset, FS_CardinalityType
<1>2. {y \in S : y > x} \in SUBSET Above
  OBVIOUS
<1>3. /\ Cardinality({y \in S : y > x}) <= Cardinality(Above)
      /\ Cardinality({y \in S : y > x}) \in Nat
  BY <1>1, <1>2, FS_Subset, FS_CardinalityType
<1>4. Cardinality(Above) < PageLimit
  BY DEF PageOf
<1> QED
  BY <1>1, <1>3, <1>4, ConstantsAssumption

\* A request's own purge aside, nothing but time passes.
Later(r) ==
    \A o \in Requests : \/ req'[o] = req[o]
                        \/ o = r /\ (req'[o].at # "purge" \/ ~req'[o].flag)

LEMMA LostAside ==
    ASSUME LostIInv, NEW r, Later(r), UNCHANGED <<rows, lost>>, exposed \subseteq exposed'
    PROVE  LostInv' /\ LostOnlyExposed'
<1>1. \A n \in Names : Page(n)' = Page(n)
  BY DEF Page
<1>2. LostInv'
  BY <1>1 DEF LostIInv, LostInv, Later
<1> QED
  BY <1>2 DEF LostIInv, LostOnlyExposed

LEMMA RowsCome ==
    ASSUME LostIInv, NEW r, Later(r), NEW n \in Names, NEW S \in SUBSET Rows,
           NEW e, e \in Requests => req[e].at # "purge",
           rows' = [rows EXCEPT ![n] = @ \union S], Late(n, S, e), UNCHANGED lost
    PROVE  LostInv' /\ LostOnlyExposed'
<1>1. rows \in [Names -> SUBSET Rows] /\ exposed \subseteq exposed'
  BY DEF LostIInv, Typed, StoreTyped, Late
<1>2. \A m \in Names : m # n => Page(m)' = Page(m)
  BY <1>1 DEF Page
<1>3. Page(n)' \subseteq Page(n) \union S
  <2>1. rows'[n] = rows[n] \union S
    BY <1>1
  <2>2. PageOf(rows'[n]) \subseteq PageOf(rows[n]) \union (rows'[n] \ rows[n])
    BY <1>1, <2>1, PageGrows
  <2>3. Page(n)' = PageOf(rows'[n]) /\ Page(n) = PageOf(rows[n])
    BY DEF Page, PageOf
  <2> QED
    BY <2>1, <2>2, <2>3
<1>4. LostInv'
  <2> SUFFICES ASSUME NEW o \in Requests, NEW m \in Names,
                      req'[o].name = m, req'[o].at = "purge", req'[o].flag
               PROVE  Page(m)' \ req'[o].doc \subseteq exposed'
    BY DEF LostInv
  <2>1. req'[o] = req[o]
    BY DEF Later
  <2>2. Page(m) \ req[o].doc \subseteq exposed
    BY <2>1 DEF LostIInv, LostInv
  <2>3. CASE m # n
    BY <1>1, <1>2, <2>1, <2>2, <2>3
  <2>4. CASE m = n
    <3>1. o # e
      BY <2>1
    <3>2. S \subseteq exposed'
      BY <2>1, <2>4, <3>1 DEF Late
    <3> QED
      BY <1>1, <1>3, <2>1, <2>2, <2>4, <3>2
  <2> QED
    BY <2>3, <2>4
<1> QED
  BY <1>1, <1>4 DEF LostIInv, LostOnlyExposed

LEMMA NewRowKeeps ==
    ASSUME LostIInv, NEW r, Later(r), NEW n \in Names, NewRow(n), UNCHANGED lost
    PROVE  LostInv' /\ LostOnlyExposed'
<1>1. CASE written < MaxRows
  <2>1. PICK w : w = written + 1
    OBVIOUS
  <2>2. {w} \in SUBSET Rows
    BY <1>1, <2>1, ConstantsAssumption DEF LostIInv, Typed, StoreTyped, Rows
  <2>3. rows' = [rows EXCEPT ![n] = @ \union {w}] /\ Late(n, {w}, None)
    BY <1>1, <2>1 DEF NewRow
  <2>4. None \notin Requests
    BY ConstantsAssumption
  <2> QED
    BY <2>2, <2>3, <2>4, RowsCome
<1>2. CASE ~(written < MaxRows)
  <2>1. UNCHANGED <<rows, exposed>>
    BY <1>2 DEF NewRow
  <2> QED
    BY <2>1, LostAside
<1> QED
  BY <1>1, <1>2

\* Collecting a page leaves nothing of it outside the archive but what cannot be read.
LEMMA CollectKeeps ==
    ASSUME LostIInv, NEW r \in Requests, Collect(r)
    PROVE  LostInv' /\ LostOnlyExposed'
<1> DEFINE n == req[r].name
<1>0. req[r].at = "collect" /\ req \in [Requests -> Requestings] /\ ReqTyped
  BY DEF Collect, LostIInv, Typed, ReqTyped
<1>1. CASE Ends(r) /\ UNCHANGED <<rows, lost, exposed>>
  BY <1>0, <1>1, LostAside, ItEnds DEF Later, Hopped, Idle
<1>2. CASE Goes(r, "purge") /\ ~req[r].flag /\ UNCHANGED <<rows, lost, exposed>>
  <2>1. Later(r)
    BY <1>0, <1>2 DEF Goes, Later, Requestings
  <2> QED
    BY <1>2, <2>1, LostAside
<1>3. CASE /\ req' = [req EXCEPT ![r].at = "purge", ![r].doc = Page(n)]
           /\ UNCHANGED <<rows, lost, exposed>>
  <2>1. req'[r].doc = Page(n) /\ req'[r].name = n
    BY <1>0, <1>3 DEF Requestings
  <2>2. \A o \in Requests : o # r => req'[o] = req[o]
    BY <1>0, <1>3
  <2>3. \A m \in Names : Page(m)' = Page(m)
    BY <1>3 DEF Page
  <2>4. LostInv'
    <3> SUFFICES ASSUME NEW o \in Requests, NEW m \in Names,
                        req'[o].name = m, req'[o].at = "purge", req'[o].flag
                 PROVE  Page(m)' \ req'[o].doc \subseteq exposed'
      BY DEF LostInv
    <3>1. CASE o = r
      <4>1. m = n /\ Page(m)' = Page(n)
        BY <2>1, <2>3, <3>1
      <4> QED
        BY <2>1, <3>1, <4>1
    <3>2. CASE o # r
      BY <1>3, <2>2, <2>3, <3>2 DEF LostIInv, LostInv
    <3> QED
      BY <3>1, <3>2
  <2> QED
    BY <1>3, <2>4 DEF LostIInv, LostOnlyExposed
<1>4. CASE /\ Goes(r, "purge") /\ exposed' = exposed \union rows[n]
           /\ UNCHANGED <<rows, lost>>
  <2>1. req'[r].name = n /\ \A o \in Requests : o # r => req'[o] = req[o]
    BY <1>0, <1>4 DEF Goes, Requestings
  <2>2. /\ \A m \in Names : Page(m)' = Page(m)
        /\ Page(n) \subseteq rows[n]
    BY <1>4 DEF Page
  <2>3. LostInv'
    BY <1>4, <2>1, <2>2 DEF LostIInv, LostInv
  <2> QED
    BY <1>4, <2>3 DEF LostIInv, LostOnlyExposed
<1> QED
  BY <1>1, <1>2, <1>3, <1>4 DEF Collect

\* A purge deletes the page; what moves up is exposed to the other removals under way.
LEMMA PurgeKeeps ==
    ASSUME LostIInv, NEW r \in Requests, Purge(r)
    PROVE  LostInv' /\ LostOnlyExposed'
<1> PICK n : n = req[r].name
  OBVIOUS
<1>0. /\ req[r].at = "purge" /\ req \in [Requests -> Requestings] /\ n \in Names
      /\ rows \in [Names -> SUBSET Rows]
  BY AtWork DEF Purge, LostIInv, Typed, ReqTyped, StoreTyped
<1>1. req'[r].at = "detach" /\ \A o \in Requests : o # r => req'[o] = req[o]
  BY <1>0 DEF Purge, Goes, Requestings
<1>2. CASE UNCHANGED <<rows, lost, exposed>>
  BY <1>1, <1>2, LostAside DEF Later
<1>3. CASE /\ rows' = [rows EXCEPT ![n] = @ \ Purged(n)]
           /\ lost' = IF req[r].flag THEN lost \union (Purged(n) \ req[r].doc) ELSE lost
           /\ Late(n, rows[n] \ Purged(n), r)
  <2>1. exposed \subseteq exposed'
    BY <1>3 DEF Late
  <2>2. \A m \in Names : m # n => Page(m)' = Page(m)
    BY <1>0, <1>3 DEF Page
  <2>3. Page(n)' \subseteq rows[n] \ Purged(n)
    <3>1. rows'[n] = rows[n] \ Purged(n)
      BY <1>0, <1>3
    <3>2. Page(n)' \subseteq rows'[n]
      BY DEF Page
    <3> QED
      BY <3>1, <3>2
  <2>4. LostInv'
    <3> SUFFICES ASSUME NEW o \in Requests, NEW m \in Names,
                        req'[o].name = m, req'[o].at = "purge", req'[o].flag
                 PROVE  Page(m)' \ req'[o].doc \subseteq exposed'
      BY DEF LostInv
    <3>1. o # r /\ req'[o] = req[o]
      BY <1>1
    <3>2. CASE m = n
      <4>1. exposed' = exposed \union (rows[n] \ Purged(n))
        BY <1>3, <3>1, <3>2 DEF Late
      <4> QED
        BY <2>3, <3>2, <4>1
    <3>3. CASE m # n
      BY <2>1, <2>2, <3>1, <3>3 DEF LostIInv, LostInv
    <3> QED
      BY <3>2, <3>3
  <2>5. LostOnlyExposed'
    <3>1. req[r].flag => Purged(n) \ req[r].doc \subseteq exposed
      BY <1>0 DEF LostIInv, LostInv, Purged
    <3> QED
      BY <1>3, <2>1, <3>1 DEF LostIInv, LostOnlyExposed
  <2> QED
    BY <2>4, <2>5
<1> QED
  BY <1>2, <1>3 DEF Purge

LEMMA LostStep == LostIInv /\ [Next]_vars => LostIInv'
<1> SUFFICES ASSUME LostIInv, [Next]_vars PROVE LostIInv'
  OBVIOUS
<1> DEFINE Kept == LostInv' /\ LostOnlyExposed'
<1>0. Typed /\ Typed' /\ ReqTyped /\ ReqTyped'
  BY StepTyped DEF LostIInv, Typed
<1> SUFFICES Kept
  BY <1>0 DEF LostIInv
<1>1. ASSUME NEW r \in Requests, Begin(r) PROVE Kept
  <2>1. PICK op \in Ops, n \in Names, d \in Dirs, to \in Dirs \union {None}, flag \in BOOLEAN,
             at \in Plain : Begun(r, op, n, d, to, flag, at)
    BY <1>0, <1>1, BeginBegun
  <2>2. Later(r)
    BY <1>0, <2>1, BegunReq DEF Later, Begun
  <2>3. UNCHANGED <<rows, lost, exposed>>
    BY <2>1 DEF Begun, Begins, storeVars
  <2> QED
    BY <2>2, <2>3, LostAside
<1>2. ASSUME NEW r \in Requests, Onboards(r) PROVE Kept
  <2>1. Later(r) /\ req[r].at # "purge"
    <3>1. Hopped(r) /\ req'[r].op \in Adding \union {"none"} /\ req[r].at # "purge"
      <4>1. req[r].at \notin {"idle", "purge"} /\ req[r].op \in Adding
        BY <1>0, <1>2, AtWork DEF Onboards, MakeRepository, ConnectGithub, Detect, CreateWorktree,
           ReadToAdd, WriteAdded, Load, Restore, Undo, Rollback, Allowed, Adding
      <4>2. Hopped(r)
        BY <1>0, <1>2, OnboardsHop
      <4>3. req'[r].op = "none" \/ req'[r].op = req[r].op
        BY <4>2 DEF Hopped, Idle
      <4> QED
        BY <4>1, <4>2, <4>3
    <3>2. req'[r].at # "purge"
      BY <1>0, <3>1 DEF ReqTyped, Fits, Allowed, Adding, Leaving
    <3> QED
      BY <3>1, <3>2 DEF Later, Hopped
  <2>2. CASE Load(r)
    <3>1. req[r].name \in Names
      BY <1>0, <2>2, AtWork DEF Load
    <3> QED
      BY <2>1, <2>2, <3>1, NewRowKeeps DEF Load
  <2>3. CASE Restore(r)
    <3>1. req[r].name \in Names
      BY <1>0, <2>3, AtWork DEF Restore
    <3>2. CASE \E a \in archives : /\ rows' = [rows EXCEPT ![req[r].name] = @ \union a]
                                  /\ Late(req[r].name, a, r)
      <4>1. PICK a \in archives : /\ rows' = [rows EXCEPT ![req[r].name] = @ \union a]
                                  /\ Late(req[r].name, a, r)
        BY <3>2
      <4>2. a \in SUBSET Rows
        BY <1>0 DEF Typed, StoreTyped
      <4> QED
        BY <2>1, <2>3, <3>1, <4>1, <4>2, RowsCome DEF Restore
    <3>3. CASE UNCHANGED <<rows, exposed>>
      BY <2>1, <2>3, <3>3, LostAside DEF Restore
    <3> QED
      BY <2>3, <3>2, <3>3 DEF Restore
  <2>4. CASE \/ MakeRepository(r) \/ ConnectGithub(r) \/ Detect(r) \/ CreateWorktree(r)
             \/ ReadToAdd(r) \/ WriteAdded(r) \/ Undo(r) \/ Rollback(r)
    <3>1. UNCHANGED <<rows, lost, exposed>>
      BY <2>4 DEF MakeRepository, ConnectGithub, Detect, CreateWorktree, ReadToAdd, WriteAdded,
                  Undo, Rollback, storeVars
    <3> QED
      BY <2>1, <3>1, LostAside
  <2> QED
    BY <1>2, <2>2, <2>3, <2>4 DEF Onboards
<1>3. ASSUME NEW r \in Requests, Removes(r) PROVE Kept
  <2>1. CASE Collect(r)
    BY <2>1, CollectKeeps
  <2>2. CASE Purge(r)
    BY <2>2, PurgeKeeps
  <2>3. CASE Detach(r) \/ ReadToDrop(r) \/ WriteDropped(r) \/ Erase(r)
    <3>1. UNCHANGED <<rows, lost, exposed>>
      BY <2>3 DEF Detach, ReadToDrop, WriteDropped, Erase, storeVars
    <3>2. Ends(r) \/ \E at \in {"entries", "drop", "erase"} : Goes(r, at)
      BY <2>3 DEF Detach, ReadToDrop, WriteDropped, Erase, AfterDrop
    <3>3. Later(r)
      BY <1>0, <3>2 DEF Later, Ends, Goes, ReqTyped, Requestings, Idle
    <3> QED
      BY <3>1, <3>3, LostAside
  <2> QED
    BY <1>3, <2>1, <2>2, <2>3 DEF Removes
<1>4. ASSUME NEW r \in Requests, Moves(r) PROVE Kept
  <2>1. UNCHANGED <<rows, lost, exposed>>
    BY <1>4 DEF Moves, MoveChecks, Unhook, Rehook, PutBack, Point, FollowKey, storeVars
  <2>2. Ends(r) \/ \E at \in {"unhook", "rehook", "putback", "point", "follow"} : Goes(r, at)
    BY <1>4 DEF Moves, MoveChecks, Unhook, Rehook, PutBack, Point, FollowKey
  <2>3. Later(r)
    BY <1>0, <2>2 DEF Later, Ends, Goes, ReqTyped, Requestings, Idle
  <2> QED
    BY <2>1, <2>3, LostAside
<1>5. ASSUME NEW r \in Requests, Changes(r) PROVE Kept
  <2>1. UNCHANGED <<rows, lost, exposed>>
    BY <1>5 DEF Changes, ChangeKey, ReadToFill, WriteFilled, storeVars
  <2>2. Ends(r) \/ Goes(r, "fill")
    BY <1>5 DEF Changes, ChangeKey, ReadToFill, WriteFilled
  <2>3. Later(r)
    BY <1>0, <2>2 DEF Later, Ends, Goes, ReqTyped, Requestings, Idle
  <2> QED
    BY <2>1, <2>3, LostAside
<1>6. ASSUME NEW n \in Names, Around(n) PROVE Kept
  <2>1. Later(None)
    BY <1>6 DEF Around, StartTask, TaskSaved, TaskWorks, TaskRests, MapBuilt, Later
  <2>2. CASE TaskRests(n) \/ MapBuilt(n)
    BY <2>1, <2>2, NewRowKeeps DEF TaskRests, MapBuilt
  <2>3. CASE StartTask(n) \/ TaskSaved(n) \/ TaskWorks(n)
    <3>1. UNCHANGED <<rows, lost, exposed>>
      BY <2>3 DEF StartTask, TaskSaved, TaskWorks, storeVars
    <3> QED
      BY <2>1, <3>1, LostAside
  <2> QED
    BY <1>6, <2>2, <2>3 DEF Around
<1>7. CASE Crash
  <2>1. UNCHANGED <<lost, exposed>> /\ \A r \in Requests : req'[r].at = "idle"
    BY <1>7 DEF Crash, Idle
  <2> QED
    BY <2>1 DEF LostIInv, LostInv, LostOnlyExposed
<1>8. CASE UNCHANGED vars
  <2>1. Later(None) /\ UNCHANGED <<rows, lost, exposed>>
    BY <1>8 DEF vars, Later
  <2> QED
    BY <2>1, LostAside
<1> QED
  BY <1>1, <1>2, <1>3, <1>4, <1>5, <1>6, <1>7, <1>8 DEF Next

LEMMA LostInit == Init => LostIInv
<1> SUFFICES ASSUME Init PROVE LostIInv
  OBVIOUS
<1>1. lost = {} /\ \A r \in Requests : req[r].at = "idle"
  BY DEF Init, Idle
<1> QED
  BY <1>1, InitTyped DEF LostIInv, LostInv, LostOnlyExposed

\* What a removal with an archive deletes from the Store is in the archive, for every page
\* limit, unless it could not be read or came into the page after it was read.
THEOREM DeletedIsArchived == Spec => []LostOnlyExposed
<1>1. LostIInv => LostOnlyExposed
  BY DEF LostIInv
<1> QED
  BY <1>1, LostInit, LostStep, PTL DEF Spec

=============================================================================
