---------------------------- MODULE CronHPAScheduled ----------------------------
(***************************************************************************)
(* What holds of CronHPA once the controller has caught up: the jobs are   *)
(* scheduled as the spec has them (SpecScheduled).                         *)
(*                                                                         *)
(* Identifiers carry the argument.  One stands for one job wherever it is  *)
(* written: in the status and its copies, in patches under way, in the     *)
(* manager and its threads (OneJobPerId).  So what a reconcile deletes is  *)
(* none of what it schedules, and what it finds tracked under the          *)
(* identifier of a condition is the condition's job.                       *)
(***************************************************************************)
EXTENDS CronHPAProofs

\* The conditions there are, in the status, its copies and the patches under way.
Listed == obj.conds \cup cache.conds \cup rec.inst.conds \cup rec.kept
          \cup UNION {run[i].conds : i \in AllIds}

\* The jobs the manager and its threads hold.
Held == {queue[i] : i \in DOMAIN queue} \cup {engine[i] : i \in DOMAIN engine}
        \cup {arg[t] : t \in {u \in M!Threads : pc[u] \notin {"idle", "g_range"}}}

\* The jobs that are running.
Launched == {run[i].job : i \in {k \in AllIds : run[k].at = "running"}}

\* Identifier id stands for job j somewhere.
Names(id, j) ==
    \/ \E c \in Listed : c.id = id /\ c.job = j
    \/ \E h \in Held \cup Launched : h.id = id /\ h.work.job = j

\* The engine launches a job under its own identifier.
OwnRuns == \A i \in AllIds : run[i].at = "running" => run[i].job.id = i

OneJobPerId == OwnRuns /\ \A id, j, k : Names(id, j) /\ Names(id, k) => j = k

Scheduling(j) == j.plan \in GoodPlans /\ ~j.once

Work(j, params) == [job |-> j, params |-> params]

Queued(j, params) == \E i \in DOMAIN queue : queue[i].work = Work(j, params)

\* Specs are of the lists the user has.
ListsInv ==
    /\ obj.there => obj.jobs \in JobLists /\ obj.params \in Params
    /\ cache.there => cache.jobs \in JobLists /\ cache.params \in Params
    /\ rec.active => rec.inst.jobs \in JobLists /\ rec.inst.params \in Params

\* And passes see the object.
SpecsInv == ListsInv /\ (Passes # {} => obj.there /\ cache.there)

\* Queue and engine hold the same work, but for the job the worker is at.
TableInv ==
    /\ \A i \in DOMAIN queue :
          /\ queue[i].work.job.plan \in GoodPlans
          /\ \/ i \in DOMAIN engine /\ engine[i].work = queue[i].work
             \/ pc[R] \in {"u_add", "u_store", "d_drop"} /\ arg[R].id = i
    /\ pc[R] \in {"c_store", "u_store"} =>
          arg[R].id \in DOMAIN engine /\ engine[arg[R].id].work = arg[R].work
    /\ pc[R] \in {"c_add", "c_store"} => arg[R].id \notin DOMAIN queue
    /\ pc[R] \in {"c_again", "u_remove", "u_add", "u_store"} => arg[R].id \in DOMAIN queue
    /\ pc[R] \in {"c_store", "u_store"} => arg[R].work.job.plan \in GoodPlans

\* Passes only look, and add what is in the queue.
PassInv ==
    \A p \in Passes :
        /\ pc[p] \in {"idle", "g_range", "g_find", "g_get", "g_add"}
        /\ pc[p] \in {"g_find", "g_get", "g_add"} => arg[p].work.job.plan \in GoodPlans

\* Identifier id is being deleted from the manager.
Deleting(id) == id \in rec.dels \/ (pc[R] \in {"d_remove", "d_drop"} /\ arg[R].id = id)

\* What a reconcile has done so far: deletions come before the calls, but for jobs
\* that are done, and every job handled is tracked as the spec has it.
CallInv ==
    rec.active =>
        /\ pc[R] \in CallPCs => arg[R].work.params = rec.inst.params
        /\ \A id : Deleting(id) =>
              rec.jobs = rec.inst.jobs \/ \A j : Names(id, j) => j.once
        /\ rec.dels # {} => pc[R] \notin CallPCs
        /\ \A j \in rec.inst.jobs :
              Scheduling(j) /\ j \notin rec.jobs /\ ~Calling(j) => Queued(j, rec.inst.params)

RestQueued ==
    AtRest /\ obj.there => \A j \in obj.jobs : Scheduling(j) => Queued(j, obj.params)

ScheduleInv == OneJobPerId /\ SpecsInv /\ TableInv /\ PassInv /\ CallInv /\ RestQueued

DistinctNames == \A jobs \in JobLists : Distinct(jobs)

\* The circumstances: the factory accepts every target, names of jobs are distinct, a
\* change of parameters changes the target; and either no pass of garbage collection is
\* made, or the object stays and so do its parameters.
Circumstances ==
    /\ ValidParams = Params
    /\ DistinctNames
    /\ \A p, q \in Params : RefOf[p] = RefOf[q] => p = q
    /\ Passes = {} \/ (Budget["deletions"] = 0 /\ \A p, q \in Params : p = q)

-------------------------------------------------------------------------------
\* Identifiers.

LEMMA HeldTyped == M!TypeOK => Held \subseteq M!Jobs
<1> SUFFICES ASSUME M!TypeOK PROVE Held \subseteq M!Jobs
    OBVIOUS
<1>1. ASSUME NEW t \in M!Threads, pc[t] \notin {"idle", "g_range"}
      PROVE  arg[t] \in M!Jobs
      BY <1>1 DEF M!TypeOK
<1> QED BY <1>1 DEF Held, M!TypeOK, M!JobMap

\* Nothing stands for what is new.
LEMMA UnusedNames ==
    ASSUME Typed, OwnRuns, pc[R] = "idle", NEW id, Unused(id), NEW j
    PROVE  ~Names(id, j)
<1>1. \A c \in Listed : c.id # id
      BY DEF Listed, Unused
<1>2. \A h \in Launched : h.id # id
      BY RestingNames DEF Launched, Unused, OwnRuns
<1>3. ASSUME NEW h \in Held, h.id = id PROVE FALSE
  <2>1. ASSUME NEW t \in M!Threads, pc[t] \notin {"idle", "g_range"}, h = arg[t]
        PROVE  FALSE
    <3>1. arg[t] \in M!Jobs /\ t \in Passes
          BY <2>1 DEF Typed, M!TypeOK, M!Threads
    <3>2. arg[t] # NoJob
          BY <3>1, HPAAssumption DEF M!Jobs, AllIds, Works
    <3> QED BY <1>3, <2>1, <3>1, <3>2 DEF Unused
  <2>2. CASE \E i \in DOMAIN queue : h = queue[i]
        BY <1>3, <2>2 DEF Unused, Typed, M!TypeOK
  <2>3. CASE \E i \in DOMAIN engine : h = engine[i]
        BY <1>3, <2>3 DEF Unused, Typed, M!TypeOK
  <2> QED BY <2>1, <2>2, <2>3 DEF Held
<1> QED BY <1>1, <1>2, <1>3 DEF Names

\* What the steps of the manager hold was held before.
LEMMA HeldCreate ==
    ASSUME M!TypeOK, M!Create
    PROVE  Held' \subseteq Held
<1> USE DEF M!Threads, M!TypeOK
<1>0. M!Threads' = M!Threads
      OBVIOUS
<1>1. R \in M!Threads /\ pc[R] \notin {"idle", "g_range"} /\ arg[R] \in Held
      BY DEF M!Create, M!CreateAdd, M!CreateStore, M!CreateAgain, M!UpdateRemove, M!UpdateAdd,
         M!UpdateStore, Held
<1>2. \A i \in DOMAIN queue' : queue'[i] \in Held
  <2>1. CASE M!Store(arg[R])
        BY <1>1, <2>1 DEF M!Store, M!Table!Scheduled, Held
  <2>2. CASE queue' = queue
        BY <2>2 DEF Held
  <2> QED BY <2>1, <2>2 DEF M!Create, M!CreateAdd, M!CreateStore, M!CreateAgain, M!UpdateRemove,
          M!UpdateAdd, M!UpdateStore
<1>3. \A i \in DOMAIN engine' : engine'[i] \in Held
  <2>1. CASE M!AddJob(arg[R])
        BY <1>1, <2>1 DEF M!AddJob, M!Table!Scheduled, Held
  <2>2. CASE M!RemoveJob(arg[R].id)
        BY <2>2 DEF M!RemoveJob, M!Table!Unscheduled, Held
  <2>3. CASE engine' = engine
        BY <2>3 DEF Held
  <2> QED BY <2>1, <2>2, <2>3 DEF M!Create, M!CreateAdd, M!CreateStore, M!CreateAgain,
          M!UpdateRemove, M!UpdateAdd, M!UpdateStore
<1>4. ASSUME NEW t \in M!Threads, pc'[t] \notin {"idle", "g_range"}
      PROVE  arg'[t] \in Held
  <2>1. arg'[t] = arg[t] /\ pc[t] \notin {"idle", "g_range"}
        BY <1>1, <1>4 DEF M!Create, M!CreateAdd, M!CreateStore, M!CreateAgain, M!UpdateRemove,
           M!UpdateAdd, M!UpdateStore, M!ContinueIf, M!Return, M!Goto
  <2> QED BY <2>1 DEF Held
<1> QED BY <1>2, <1>3, <1>4 DEF Held

LEMMA HeldDelete ==
    ASSUME M!TypeOK, NEW t \in M!Threads, M!DeleteRemove(t) \/ M!DeleteDrop(t)
    PROVE  Held' \subseteq Held
<1> USE DEF M!Threads, M!TypeOK
<1>1. \A i \in DOMAIN queue' : queue'[i] \in Held
      BY DEF M!DeleteRemove, M!DeleteDrop, M!Table!Unscheduled, Held
<1>2. \A i \in DOMAIN engine' : engine'[i] \in Held
      BY DEF M!DeleteRemove, M!DeleteDrop, M!RemoveJob, M!Table!Unscheduled, Held
<1>3. ASSUME NEW u \in M!Threads, pc'[u] \notin {"idle", "g_range"}
      PROVE  arg'[u] \in Held
  <2>1. arg'[u] = arg[u] /\ pc[u] \notin {"idle", "g_range"}
        BY <1>3 DEF M!DeleteRemove, M!DeleteDrop, M!Return, M!Goto
  <2> QED BY <2>1 DEF Held
<1> QED BY <1>1, <1>2, <1>3 DEF Held

LEMMA HeldPass ==
    ASSUME M!TypeOK, NEW p \in Passes, M!GCStart(p) \/ M!Collect(p)
    PROVE  Held' \subseteq Held
<1> USE DEF M!Threads, M!TypeOK
<1>1. \A i \in DOMAIN queue' : queue'[i] \in Held
  <2>1. queue' = queue
        BY DEF M!GCStart, M!Collect, M!GCVisit, M!GCEnd, M!GCFind, M!GCGetNotFound, M!GCGetExists,
           M!GCRemove, M!GCAdd, M!DeleteLoad
  <2> QED BY <2>1 DEF Held
<1>2. \A i \in DOMAIN engine' : engine'[i] \in Held
  <2>1. CASE M!GCAdd(p)
    <3>1. arg[p] \in Held
          BY <2>1 DEF M!GCAdd, Held
    <3> QED BY <2>1, <3>1 DEF M!GCAdd, M!AddJob, M!Table!Scheduled, Held
  <2>2. CASE M!GCRemove(p)
        BY <2>2 DEF M!GCRemove, M!RemoveJob, M!Table!Unscheduled, Held
  <2>3. CASE engine' = engine
        BY <2>3 DEF Held
  <2> QED BY <2>1, <2>2, <2>3 DEF M!GCStart, M!Collect, M!GCVisit, M!GCEnd, M!GCFind,
          M!GCGetNotFound, M!GCGetExists, M!DeleteLoad
<1>3. ASSUME NEW u \in M!Threads, pc'[u] \notin {"idle", "g_range"}
      PROVE  arg'[u] \in Held
  <2>1. CASE arg'[u] = arg[u] /\ pc[u] \notin {"idle", "g_range"}
        BY <2>1 DEF Held
  <2>2. CASE ~(arg'[u] = arg[u] /\ pc[u] \notin {"idle", "g_range"})
    <3>1. \E id \in AllIds : M!GCVisit(p, id) /\ u = p /\ id \in DOMAIN queue
          BY <1>3, <2>2 DEF M!GCStart, M!Collect, M!GCVisit, M!GCEnd, M!GCFind, M!GCGetNotFound,
             M!GCGetExists, M!GCRemove, M!GCAdd, M!DeleteLoad, M!ContinueIf, M!Return, M!Goto
    <3> QED BY <3>1 DEF M!GCVisit, Held
  <2> QED BY <2>1, <2>2
<1> QED BY <1>1, <1>2, <1>3 DEF Held

LEMMA HeldCall ==
    ASSUME M!TypeOK, pc[R] = "idle"
    PROVE  /\ \A id : M!CallDelete(id) => Held' \subseteq Held
           /\ \A j : M!CreateLoad(j) => Held' \subseteq Held \cup {j}
<1> USE DEF M!Threads, M!TypeOK
<1>1. ASSUME NEW id, M!CallDelete(id) PROVE Held' \subseteq Held
  <2>1. \A u \in M!Threads : pc'[u] \notin {"idle", "g_range"} => arg'[u] \in Held
        BY <1>1 DEF M!CallDelete, M!Goto, Held
  <2> QED BY <1>1, <2>1 DEF M!CallDelete, Held
<1>2. ASSUME NEW j, M!CreateLoad(j) PROVE Held' \subseteq Held \cup {j}
  <2>1. \A u \in M!Threads : pc'[u] \notin {"idle", "g_range"} => arg'[u] \in Held \cup {j}
        BY <1>2 DEF M!CreateLoad, M!Goto, Held
  <2> QED BY <1>2, <2>1 DEF M!CreateLoad, Held
<1> QED BY <1>1, <1>2

LEMMA HeldRestart == M!Restart => Held' = {}
BY DEF M!Restart, Held, M!Threads

\* A step after which no identifier stands for a job it did not stand for.
NamesKept ==
    /\ \A id, j : Names(id, j)' => Names(id, j)
    /\ \A i \in AllIds : run'[i].at = "running" => run'[i].job.id = i

LEMMA NamesFrom ==
    ASSUME OwnRuns,
           \A conds \in {obj'.conds, cache'.conds, rec'.inst.conds, rec'.kept}
                        \cup {run'[i].conds : i \in AllIds} :
              \A c \in conds :
                 c \in Listed \/ \E h \in Held \cup Launched : h.id = c.id /\ h.work.job = c.job,
           Held' \subseteq Held,
           \A i \in AllIds : run'[i].at = "running" =>
              run'[i].job.id = i /\ run'[i].job \in Held \cup Launched
    PROVE  NamesKept
<1>1. ASSUME NEW c \in Listed'
      PROVE  c \in Listed \/ \E h \in Held \cup Launched : h.id = c.id /\ h.work.job = c.job
      BY DEF Listed
<1>2. (Held \cup Launched)' \subseteq Held \cup Launched
      BY DEF Launched
<1> QED BY <1>1, <1>2 DEF Names, NamesKept

\* The same, when the runs stay as they are or end.
LEMMA NamesFromCopies ==
    ASSUME OwnRuns, Held' \subseteq Held,
           obj'.conds \subseteq Listed, cache'.conds \subseteq Listed,
           rec'.inst.conds \subseteq Listed, rec'.kept \subseteq Listed,
           \A i \in AllIds : run'[i] \in {run[i], NoRun}
    PROVE  NamesKept
<1>1. \A i \in AllIds : run'[i].conds \subseteq Listed
      BY RestingNames DEF Listed
<1>2. \A i \in AllIds : run'[i].at = "running" =>
          run'[i].job.id = i /\ run'[i].job \in Launched
      BY RestingNames DEF Launched, OwnRuns
<1> HIDE DEF OwnRuns
<1> QED BY <1>1, <1>2, NamesFrom

LEMMA ListedParts ==
    /\ obj.conds \subseteq Listed /\ cache.conds \subseteq Listed
    /\ rec.inst.conds \subseteq Listed /\ rec.kept \subseteq Listed
    /\ \A i \in AllIds : run[i].conds \subseteq Listed
BY DEF Listed

LEMMA SameHeld == UNCHANGED managerVars => Held' = Held
BY DEF managerVars, Held, M!Threads

\* A new version of the object.
LEMMA VersionedNames ==
    ASSUME Typed, OwnRuns, NEW o, Versioned(o), o.conds \subseteq Listed,
           UNCHANGED <<cache, managerVars>>, \A i \in AllIds : run'[i] \in {run[i], NoRun}
    PROVE  NamesKept
<1>1. rec'.inst = rec.inst /\ rec'.kept = rec.kept /\ obj' = o
      BY RecFields DEF Typed, CopyInv, Versioned, Fields
<1> QED BY <1>1, NamesFromCopies, ListedParts, SameHeld

LEMMA UserNames == Typed /\ OwnRuns /\ User => NamesKept
<1> SUFFICES ASSUME Typed, OwnRuns, User PROVE NamesKept
    OBVIOUS
<1>1. ASSUME NEW jobs, NEW params, UserEdit(jobs, params)
      PROVE  NamesKept
  <2> DEFINE o == [obj EXCEPT !.jobs = jobs, !.params = params]
  <2>1. o.conds = obj.conds
        BY DEF Typed, CopyInv, Shapes, Absent
  <2>2. Versioned(o) /\ UNCHANGED <<cache, run, managerVars>>
        BY <1>1 DEF UserEdit
  <2> HIDE DEF o
  <2> QED BY <2>1, <2>2, VersionedNames, ListedParts
<1>2. CASE UserDelete
  <2>1. Versioned(Absent) /\ UNCHANGED <<cache, run, managerVars>>
        BY <1>2 DEF UserDelete
  <2> QED BY <2>1, RestingNames, VersionedNames
<1>3. ASSUME NEW jobs, NEW params, UserCreate(jobs, params)
      PROVE  NamesKept
  <2>1. Created(jobs, params).conds = {}
        BY DEF Created, Absent
  <2>2. Versioned(Created(jobs, params)) /\ UNCHANGED <<cache, run, managerVars>>
        BY <1>3 DEF UserCreate
  <2> QED BY <2>1, <2>2, VersionedNames
<1> QED BY <1>1, <1>2, <1>3 DEF User

\* Steps that copy the object or nothing.
LEMMA CopyNames ==
    ASSUME Typed, OwnRuns,
           Sync \/ Resync \/ Read \/ Skip \/ Update \/ Conflict \/ UpdateFails \/ UNCHANGED vars
    PROVE  NamesKept
<1>1. UNCHANGED <<run, managerVars>> /\ cache'.conds \in {cache.conds, obj.conds}
      BY DEF Sync, Resync, Read, Skip, Update, Conflict, UpdateFails, vars, reconcileVars
<1>2. obj'.conds \in {obj.conds, rec.inst.conds}
      BY DEF Sync, Resync, Read, Skip, Update, Conflict, UpdateFails, vars, reconcileVars
<1>3. rec'.inst.conds \subseteq Listed /\ rec'.kept \subseteq Listed
  <2>1. CASE Read
    <3>1. /\ rec'.inst = [cache EXCEPT !.sparams = cache.params, !.conds = rec'.kept]
          /\ rec'.kept \subseteq cache.conds
          BY <2>1 DEF Read, Resting
    <3>2. rec'.inst.conds = rec'.kept
          BY <3>1 DEF Typed, CopyInv, Shapes, Absent
    <3> QED BY <3>1, <3>2, ListedParts
  <2>2. CASE rec' = rec
        BY <2>2, ListedParts
  <2>3. CASE rec' = Resting
        BY <2>3, RestingNames
  <2> QED BY <2>1, <2>2, <2>3 DEF Sync, Resync, Skip, Update, Conflict, UpdateFails, vars,
          reconcileVars
<1> QED BY <1>1, <1>2, <1>3, NamesFromCopies, ListedParts, SameHeld

LEMMA ResultNames ==
    ASSUME Typed, OwnRuns, NEW id \in AllIds, Fire(id) \/ Result(id)
    PROVE  NamesKept
<1>1. run \in [AllIds -> Runs]
      BY DEF Typed, CTypes
<1>2. CASE Patch(id)
  <2> DEFINE o == [obj EXCEPT !.conds = run[id].conds]
  <2>1. o.conds = run[id].conds
        BY DEF Typed, CopyInv, Shapes, Absent
  <2>2. /\ Versioned(o) /\ UNCHANGED <<cache, managerVars>>
        /\ \A i \in AllIds : run'[i] \in {run[i], NoRun}
        BY <1>1, <1>2 DEF Patch
  <2> HIDE DEF o
  <2> QED BY <2>1, <2>2, VersionedNames, ListedParts
<1>3. CASE PatchLost(id)
  <2>1. /\ UNCHANGED <<obj, cache, rec, managerVars>>
        /\ \A i \in AllIds : run'[i] \in {run[i], NoRun}
        BY <1>1, <1>3 DEF PatchLost
  <2> QED BY <2>1, NamesFromCopies, ListedParts, SameHeld
<1>4. CASE Fire(id)
  <2>1. /\ UNCHANGED <<obj, cache, rec, managerVars>> /\ id \in DOMAIN engine
        /\ run'[id].job = engine[id] /\ run'[id].conds = {}
        /\ \A i \in AllIds \ {id} : run'[i] = run[i]
        BY <1>1, <1>4 DEF Fire
  <2>2. engine[id] \in Held /\ engine[id].id = id
        BY <2>1 DEF Held, Typed, M!TypeOK
  <2>3. \A i \in AllIds : run'[i].conds \subseteq Listed
        BY <2>1, ListedParts
  <2>4. \A i \in AllIds : run'[i].at = "running" =>
          run'[i].job.id = i /\ run'[i].job \in Held \cup Launched
        BY <2>1, <2>2 DEF Launched, OwnRuns
  <2> QED BY <2>1, <2>3, <2>4, NamesFrom, ListedParts, SameHeld
<1>5. CASE HandleResult(id)
  <2> DEFINE done == run[id].job
             conds(state) == {c \in cache.conds : c.id # id /\ c.job.name # done.work.job.name}
                             \cup {[job |-> done.work.job, id |-> id, state |-> state]}
  <2>1. PICK state \in Final : /\ run'[id].conds \in {conds(state), {}}
                               /\ run'[id].at # "running"
        BY <1>1, <1>5, RestingNames DEF HandleResult
  <2>2. UNCHANGED <<obj, cache, rec, managerVars>> /\ \A i \in AllIds \ {id} : run'[i] = run[i]
        BY <1>1, <1>5 DEF HandleResult
  <2>3. done \in Launched /\ done.id = id
        BY <1>5 DEF HandleResult, Launched, OwnRuns
  <2>4. \A c \in run'[id].conds :
          c \in Listed \/ \E h \in Held \cup Launched : h.id = c.id /\ h.work.job = c.job
        BY <2>1, <2>3, ListedParts
  <2>5. \A i \in AllIds : run'[i].at = "running" =>
          run'[i].job.id = i /\ run'[i].job \in Held \cup Launched
        BY <2>1, <2>2 DEF Launched, OwnRuns
  <2> QED BY <2>2, <2>4, <2>5, NamesFrom, ListedParts, SameHeld
<1> QED BY <1>2, <1>3, <1>4, <1>5 DEF Result

\* What recording a condition changes.
LEMMA RecordedFields ==
    ASSUME Typed, NEW j, NEW id, NEW state, rec' = Recorded(rec, j, id, state)
    PROVE  /\ rec'.active = rec.active /\ rec'.dels = rec.dels /\ rec'.jobs = rec.jobs
           /\ rec'.inst.jobs = rec.inst.jobs /\ rec'.inst.params = rec.inst.params
           /\ rec'.kept = rec.kept
           /\ rec'.inst.conds = {c \in rec.inst.conds : c.job.name # j.name}
                                \cup {[job |-> j, id |-> id, state |-> state]}
<1>1. PICK s : s = Recorded(rec, j, id, state)
      OBVIOUS
<1>2. DOMAIN rec = Fields /\ DOMAIN rec.inst = DOMAIN Absent
      BY RecFields DEF Typed, CopyInv, Shapes
<1>3. /\ s.active = rec.active /\ s.dels = rec.dels /\ s.jobs = rec.jobs
      /\ s.inst.jobs = rec.inst.jobs /\ s.inst.params = rec.inst.params
      /\ s.kept = rec.kept
      /\ s.inst.conds = {c \in rec.inst.conds : c.job.name # j.name}
                        \cup {[job |-> j, id |-> id, state |-> state]}
      BY ONLY <1>1, <1>2 DEF Recorded, Fields, Absent
<1> QED BY ONLY <1>1, <1>3, rec' = Recorded(rec, j, id, state)

\* The condition of a job with the identifier under which the manager holds it.
LEMMA RecordedNames ==
    ASSUME Typed, OwnRuns, UNCHANGED reconcileVars, Held' \subseteq Held,
           NEW j, NEW id, NEW state, rec' = Recorded(rec, j, id, state),
           \E h \in Held : h.id = id /\ h.work.job = j
    PROVE  NamesKept
<1>1. /\ rec'.kept = rec.kept
      /\ rec'.inst.conds = {c \in rec.inst.conds : c.job.name # j.name}
                           \cup {[job |-> j, id |-> id, state |-> state]}
      BY RecordedFields
<1>2. UNCHANGED <<obj, cache, run>>
      BY DEF reconcileVars
<1>3. \A c \in rec'.inst.conds :
        c \in Listed \/ \E h \in Held \cup Launched : h.id = c.id /\ h.work.job = c.job
      BY <1>1, ListedParts
<1>4. \A i \in AllIds : run'[i].at = "running" =>
        run'[i].job.id = i /\ run'[i].job \in Held \cup Launched
      BY <1>2 DEF Launched, OwnRuns
<1> QED BY <1>1, <1>2, <1>3, <1>4, NamesFrom, ListedParts

\* The calls the worker is in.
LEMMA CallNames ==
    ASSUME Typed, StatusInv, OwnRuns, Submit \/ Refuse \/ Compare \/ ManagerStep
    PROVE  NamesKept
<1>1. R \in M!Threads /\ pc[R] \notin {"idle", "g_range"}
      BY DEF M!Threads, Submit, Refuse, Compare, ManagerStep, M!UpdateRemove, M!DeleteRemove,
         M!DeleteDrop
<1>2. arg[R] \in Held /\ UNCHANGED reconcileVars
      BY <1>1 DEF Held, Submit, Refuse, Compare, ManagerStep
<1>3. Held' \subseteq Held
      BY <1>1, HeldCreate, HeldDelete DEF Typed, Submit, Refuse, Compare, ManagerStep, M!Create
<1>4. \/ rec' = rec
      \/ \E state : rec' = Recorded(rec, arg[R].work.job, arg[R].id, state)
      BY DEF Submit, Refuse, Compare, ManagerStep, Record
<1>5. CASE rec' = rec
      BY <1>2, <1>3, <1>5, NamesFromCopies, ListedParts DEF reconcileVars
<1> QED BY <1>2, <1>3, <1>4, <1>5, RecordedNames

\* The job of a condition that is left is the one of that name.
LEMMA KeptJob ==
    ASSUME StatusInv, ListsInv, DistinctNames, rec.active,
           NEW j \in rec.inst.jobs, NEW c \in KeptOf(j)
    PROVE  c.job = j
<1>1. Distinct(rec.inst.jobs)
      BY DEF ListsInv, DistinctNames
<1> QED BY <1>1 DEF KeptOf, StatusInv, InstInv, Distinct

LEMMA DeleteNames ==
    ASSUME Typed, OwnRuns, NEW id, DeleteOne(id)
    PROVE  NamesKept
<1>1. rec'.inst = rec.inst /\ rec'.kept = rec.kept /\ UNCHANGED <<obj, cache, run>>
      BY RecFields DEF Typed, CopyInv, Fields, DeleteOne, reconcileVars
<1>2. Held' \subseteq Held
      BY HeldCall, SameHeld DEF DeleteOne, Typed
<1> QED BY <1>1, <1>2, NamesFromCopies, ListedParts

LEMMA DoneNames ==
    ASSUME Typed, OwnRuns, NEW j, JobDone(j)
    PROVE  NamesKept
<1>1. rec'.inst = rec.inst /\ rec'.kept = rec.kept /\ UNCHANGED <<obj, cache, run, managerVars>>
  <2>1. PICK ids : rec' = [Taken(j) EXCEPT !.dels = ids]
        BY DEF JobDone
  <2>2. DOMAIN Taken(j) = Fields /\ Taken(j).inst = rec.inst /\ Taken(j).kept = rec.kept
        BY TakenFields DEF Typed, CopyInv
  <2> QED BY <2>1, <2>2 DEF Fields, JobDone, reconcileVars
<1> QED BY <1>1, NamesFromCopies, ListedParts, SameHeld

\* An identifier that stood for nothing stands for job j.
NamesAdded(fresh, j) ==
    /\ \A k : ~Names(fresh, k)
    /\ \A id, k : Names(id, k)' => Names(id, k) \/ (id = fresh /\ k = j)
    /\ \A i \in AllIds : run'[i].at = "running" => run'[i].job.id = i

LEMMA CreateNames ==
    ASSUME Typed, StatusInv, ListsInv, DistinctNames, OwnRuns, NEW j, JobCreate(j)
    PROVE  NamesKept \/ \E fresh : NamesAdded(fresh, j)
<1>1. /\ rec.active /\ pc[R] = "idle" /\ j \in rec.inst.jobs
      /\ UNCHANGED <<obj, cache, run>> /\ rec'.inst = rec.inst /\ rec'.kept = rec.kept
  <2>1. Taken(j).inst = rec.inst /\ Taken(j).kept = rec.kept
        BY TakenFields DEF Typed, CopyInv
  <2>2. rec' = Taken(j) /\ UNCHANGED reconcileVars /\ HandleJob(j)
        BY DEF JobCreate
  <2> QED BY <2>1, <2>2 DEF HandleJob, Typed, CTypes, RecTypes, reconcileVars
<1>2. PICK id \in AllIds :
        /\ IF KeptOf(j) = {} THEN Unused(id) ELSE \E c \in KeptOf(j) : c.id = id
        /\ M!CreateLoad([id |-> id, work |-> [job |-> j, params |-> rec.inst.params]])
      BY DEF JobCreate
<1> DEFINE call == [id |-> id, work |-> [job |-> j, params |-> rec.inst.params]]
<1>3. Held' \subseteq Held \cup {call}
      BY <1>1, <1>2, HeldCall DEF Typed
<1>4. call.id = id /\ call.work.job = j
      OBVIOUS
<1>5. Listed' = Listed /\ Launched' = Launched
      BY <1>1 DEF Listed, Launched
<1> HIDE DEF call
<1>6. \A i, k : Names(i, k)' => Names(i, k) \/ (i = id /\ k = j)
      BY <1>3, <1>4, <1>5 DEF Names
<1>7. \A i \in AllIds : run'[i].at = "running" => run'[i].job.id = i
      BY <1>1 DEF OwnRuns
<1>8. CASE KeptOf(j) = {}
  <2>1. \A k : ~Names(id, k)
        BY <1>1, <1>2, <1>8, UnusedNames
  <2> QED BY <1>6, <1>7, <2>1 DEF NamesAdded
<1>9. CASE KeptOf(j) # {}
  <2>1. PICK c \in KeptOf(j) : c.id = id
        BY <1>2, <1>9
  <2>2. c.job = j /\ c \in Listed
        BY <1>1, KeptJob DEF KeptOf, Listed
  <2>3. Names(id, j)
        BY <2>1, <2>2 DEF Names
  <2> QED BY <1>6, <1>7, <2>3 DEF NamesKept
<1> QED BY <1>8, <1>9

LEMMA PassNames ==
    ASSUME Typed, StatusInv, OwnRuns,
           ReadGone \/ \E p \in Passes : Tick(p) \/ GarbageCollect(p)
    PROVE  NamesKept
<1>1. UNCHANGED <<obj, cache, rec, run>>
      BY DEF ReadGone, Tick, GarbageCollect, objectVars
<1>2. Held' \subseteq Held
  <2>1. Passes \subseteq M!Threads
        BY DEF M!Threads
  <2> QED BY <2>1, HeldPass, HeldDelete DEF ReadGone, Tick, GarbageCollect, Typed
<1> QED BY <1>1, <1>2, NamesFromCopies, ListedParts

LEMMA CrashNames ==
    ASSUME Typed, OwnRuns, Crash
    PROVE  NamesKept
<1>1. /\ cache' = obj /\ obj' = obj /\ rec' = Resting
      /\ \A i \in AllIds : run'[i] \in {run[i], NoRun}
      BY DEF Crash
<1>2. Held' = {}
      BY HeldRestart DEF Crash
<1> QED BY <1>1, <1>2, NamesFromCopies, ListedParts, RestingNames

\* The factory accepts the target.
LEMMA AllValid ==
    ASSUME Typed, SpecsInv, Circumstances, NEW j, JobInvalid(j)
    PROVE  FALSE
BY DEF JobInvalid, HandleJob, SpecsInv, ListsInv, Circumstances

LEMMA NamesMove ==
    ASSUME Typed, StatusInv, ListsInv, DistinctNames, OwnRuns, [Next]_vars
    PROVE  \/ NamesKept
           \/ \E j \in JobSpecs : JobCreate(j) /\ \E fresh : NamesAdded(fresh, j)
           \/ \E j \in JobSpecs : JobInvalid(j)
<1>1. CASE Reconcile
  <2>1. ASSUME NEW j \in JobSpecs, JobDone(j) \/ JobCreate(j)
        PROVE  NamesKept \/ (JobCreate(j) /\ \E fresh : NamesAdded(fresh, j))
        BY <2>1, DoneNames, CreateNames
  <2> QED BY <1>1, <2>1, CopyNames, DeleteNames, CallNames, PassNames DEF Reconcile
<1> QED BY <1>1, CopyNames, UserNames, ResultNames, PassNames, CrashNames DEF Next

LEMMA NamesStep ==
    ASSUME Typed, StatusInv, SpecsInv, Circumstances, OneJobPerId, [Next]_vars
    PROVE  NamesKept \/ \E j \in JobSpecs : JobCreate(j) /\ \E fresh : NamesAdded(fresh, j)
BY NamesMove, AllValid DEF SpecsInv, Circumstances, OneJobPerId

LEMMA NamesInit == Init => OneJobPerId
<1> SUFFICES ASSUME Init PROVE OneJobPerId
    OBVIOUS
<1>1. /\ obj.conds = {} /\ cache = obj /\ rec = Resting
      /\ run = [i \in AllIds |-> NoRun]
      BY DEF Init, Created, Absent
<1>2. /\ DOMAIN queue = {} /\ DOMAIN engine = {}
      /\ \A t \in M!Threads : pc[t] = "idle"
      BY DEF Init, M!Init
<1>3. Listed = {}
      BY <1>1, RestingNames DEF Listed
<1>4. Launched = {} /\ Held = {}
      BY <1>1, <1>2, RestingNames DEF Launched, Held
<1> QED BY <1>1, <1>3, <1>4, RestingNames DEF OneJobPerId, OwnRuns, Names

LEMMA OneJobStep ==
    ASSUME Typed, StatusInv, SpecsInv, Circumstances, OneJobPerId, [Next]_vars
    PROVE  OneJobPerId'
<1>1. NamesKept \/ \E j, fresh : NamesAdded(fresh, j)
      BY NamesStep
<1>2. \A i \in AllIds : run'[i].at = "running" => run'[i].job.id = i
      BY <1>1 DEF NamesKept, NamesAdded
<1>3. ASSUME NEW id, NEW j, NEW k, Names(id, j)', Names(id, k)'
      PROVE  j = k
      BY <1>1, <1>3 DEF NamesKept, NamesAdded, OneJobPerId
<1> QED BY <1>2, <1>3 DEF OneJobPerId, OwnRuns

-------------------------------------------------------------------------------
\* The spec, and the passes that look at the object.

LEMMA ListsInit == Init => ListsInv
<1> SUFFICES ASSUME Init PROVE ListsInv
    OBVIOUS
<1>1. PICK jobs \in JobLists, params \in Params : obj = Created(jobs, params)
      BY DEF Init
<1>2. obj.there /\ obj.jobs = jobs /\ obj.params = params
      BY <1>1 DEF Created, Absent
<1>3. cache = obj /\ ~rec.active
      BY RestingNames DEF Init
<1> QED BY <1>2, <1>3 DEF ListsInv

LEMMA ListsStep ==
    ASSUME Typed, StatusInv, ListsInv, [Next]_vars
    PROVE  ListsInv'
<1>1. Shapes /\ DOMAIN rec = Fields
      BY RecFields DEF Typed, CopyInv
\* A new version.
<1>2. ASSUME NEW o, Versioned(o), UNCHANGED cache,
             o.there => o.jobs \in JobLists /\ o.params \in Params
      PROVE  ListsInv'
      BY <1>1, <1>2 DEF Versioned, ListsInv, Fields
\* A step of the worker after which it works on the same spec, or rests.
<1>3. ASSUME UNCHANGED <<obj, cache>>, ~rec'.active \/ (rec.active /\ Same(rec'.inst, rec.inst))
      PROVE  ListsInv'
      BY <1>3 DEF ListsInv, Same
<1>4. CASE User
  <2>1. ASSUME NEW jobs \in JobLists, NEW params \in Params, UserEdit(jobs, params)
        PROVE  ListsInv'
    <3> DEFINE o == [obj EXCEPT !.jobs = jobs, !.params = params]
    <3>1. o.there = obj.there /\ o.jobs = jobs /\ o.params = params
          BY <1>1 DEF Shapes, Absent
    <3>2. Versioned(o) /\ UNCHANGED cache
          BY <2>1 DEF UserEdit
    <3> HIDE DEF o
    <3> QED BY <1>2, <3>1, <3>2 DEF ListsInv
  <2>2. ASSUME NEW jobs \in JobLists, NEW params \in Params, UserCreate(jobs, params)
        PROVE  ListsInv'
    <3>1. /\ Created(jobs, params).jobs = jobs /\ Created(jobs, params).params = params
          /\ Created(jobs, params).there
          BY DEF Created, Absent
    <3> QED BY <1>2, <2>2, <3>1 DEF UserCreate
  <2>3. ASSUME UserDelete PROVE ListsInv'
        BY <1>2, <2>3, RestingNames DEF UserDelete
  <2> QED BY <1>4, <2>1, <2>2, <2>3 DEF User
<1>5. CASE Sync \/ Resync \/ UNCHANGED vars
      BY <1>5 DEF Sync, Resync, vars, ListsInv
<1>6. CASE Read
  <2>1. /\ UNCHANGED <<obj, cache>> /\ cache.there
        /\ \E kept : rec'.inst = [cache EXCEPT !.sparams = cache.params, !.conds = kept]
        BY <1>6 DEF Read, Resting
  <2>2. rec'.inst.jobs = cache.jobs /\ rec'.inst.params = cache.params
        BY <1>1, <2>1 DEF Shapes, Absent
  <2> QED BY <2>1, <2>2 DEF ListsInv
<1>7. CASE Skip \/ Conflict \/ UpdateFails
      BY <1>3, <1>7, RestingNames DEF Skip, Conflict, UpdateFails, reconcileVars
<1>8. CASE Update
  <2>1. Same(obj', obj) /\ cache' = cache /\ rec' = Resting
        BY <1>8, UpdateKeepsSpec DEF Typed, Update, Same
  <2> QED BY <2>1, RestingNames DEF ListsInv, Same
<1>9. CASE ReadGone \/ \E id \in AllIds : DeleteOne(id)
      BY <1>1, <1>3, <1>9 DEF ReadGone, DeleteOne, reconcileVars, Same, Fields, ListsInv
<1>10. ASSUME NEW j \in JobSpecs, JobInvalid(j) \/ JobDone(j) \/ JobCreate(j)
       PROVE  ListsInv'
  <2>1. UNCHANGED <<obj, cache>> /\ rec.active
        BY <1>10 DEF JobInvalid, JobDone, JobCreate, HandleJob, reconcileVars
  <2>2. /\ DOMAIN Taken(j) = DOMAIN Resting /\ DOMAIN Taken(j).inst = DOMAIN Absent
        /\ Taken(j).inst = rec.inst
        BY <1>1, TakenKeeps DEF Shapes
  <2>3. CASE JobInvalid(j)
    <3>1. /\ rec'.active = rec.active /\ Same(rec'.inst, rec.inst)
          BY <2>2, <2>3, RecordedKeeps, TakenKeeps, <1>1 DEF JobInvalid
    <3> QED BY <1>3, <2>1, <3>1
  <2>4. CASE JobDone(j) \/ JobCreate(j)
    <3>1. rec'.inst = rec.inst
          BY <2>2, <2>4 DEF JobDone, JobCreate, Resting
    <3> QED BY <1>3, <2>1, <3>1 DEF Same
  <2> QED BY <1>10, <2>3, <2>4
<1>11. CASE Submit \/ Refuse \/ Compare \/ ManagerStep
  <2>1. UNCHANGED <<obj, cache>> /\ rec.active
        BY <1>11 DEF Submit, Refuse, Compare, ManagerStep, reconcileVars, M!UpdateRemove,
           M!DeleteRemove, M!DeleteDrop, StatusInv, WorkInv
  <2>2. rec' = rec \/ \E j, id, state : rec' = Recorded(rec, j, id, state)
        BY <1>11 DEF Submit, Refuse, Compare, ManagerStep, Record
  <2>3. Same(rec'.inst, rec.inst)
        BY <1>1, <2>2, RecordedKeeps DEF Shapes, Same
  <2> QED BY <1>3, <2>1, <2>3
<1>12. CASE \E id \in AllIds : Fire(id) \/ Result(id)
  <2>1. ASSUME NEW id \in AllIds, Patch(id)
        PROVE  ListsInv'
    <3> DEFINE o == [obj EXCEPT !.conds = run[id].conds]
    <3>1. Same(o, obj)
          BY <1>1 DEF Shapes, Absent, Same
    <3>2. Versioned(o) /\ UNCHANGED cache
          BY <2>1 DEF Patch
    <3> HIDE DEF o
    <3> QED BY <1>2, <3>1, <3>2 DEF ListsInv, Same
  <2>2. ASSUME NEW id \in AllIds, Fire(id) \/ HandleResult(id) \/ PatchLost(id)
        PROVE  ListsInv'
        BY <2>2 DEF Fire, HandleResult, PatchLost, ListsInv
  <2> QED BY <1>12, <2>1, <2>2 DEF Result
<1>13. CASE \E p \in Passes : Tick(p) \/ GarbageCollect(p)
       BY <1>13 DEF Tick, GarbageCollect, objectVars, ListsInv
<1>14. CASE Crash
       BY <1>14, RestingNames DEF Crash, ListsInv
<1>15. CASE Reconcile
       BY <1>6, <1>7, <1>8, <1>9, <1>10, <1>11, <1>15 DEF Reconcile
<1> QED BY <1>4, <1>5, <1>7, <1>12, <1>13, <1>14, <1>15 DEF Next

LEMMA SpecsInit == Init => SpecsInv
<1>1. Init => obj.there /\ cache.there
      BY DEF Init, Created, Absent
<1> QED BY <1>1, ListsInit DEF SpecsInv

LEMMA SpecsStep ==
    ASSUME Typed, StatusInv, SpecsInv, Circumstances, [Next]_vars
    PROVE  SpecsInv'
<1> SUFFICES ASSUME Passes # {} PROVE obj'.there /\ cache'.there
    BY ListsStep DEF SpecsInv
<1>1. Shapes
      BY DEF Typed, CopyInv
<1>2. ~UserDelete
  <2>1. UserDelete => budget["deletions"] > 0
        BY DEF UserDelete, Spend
  <2>2. Budget["deletions"] = 0 => budget["deletions"] = 0
        BY HPAAssumption DEF Typed, Spent
  <2> QED BY <2>1, <2>2 DEF Circumstances
<1>3. obj'.there
  <2>1. ASSUME NEW jobs, NEW params, UserEdit(jobs, params) \/ UserCreate(jobs, params)
        PROVE  obj'.there
        BY <1>1, <2>1 DEF UserEdit, UserCreate, Versioned, Created, Shapes, Absent
  <2>2. ASSUME NEW id, Patch(id) PROVE obj'.there
        BY <1>1, <2>2 DEF Patch, Versioned, Shapes, Absent
  <2>3. Update => obj'.there
        BY DEF Update, Handled, StatusInv, InstInv
  <2>4. CASE ~User /\ ~Update /\ ~\E id \in AllIds : Patch(id)
    <3>1. obj' = obj
          BY <2>4 DEF Next, vars, Sync, Resync, UpdateFails, Reconcile, Read, ReadGone, DeleteOne,
             JobInvalid, JobDone, JobCreate, Submit, Refuse, Compare, ManagerStep, Skip, Conflict,
             reconcileVars, Fire, Result, HandleResult, PatchLost, Tick, GarbageCollect, objectVars,
             Crash
    <3> QED BY <3>1 DEF SpecsInv
  <2> QED BY <1>2, <2>1, <2>2, <2>3, <2>4 DEF User
<1>4. cache' \in {cache, obj}
      BY DEF Next, vars, User, UserEdit, UserDelete, UserCreate, Sync, Resync, UpdateFails,
         Reconcile, Read, ReadGone, DeleteOne, JobInvalid, JobDone, JobCreate, Submit, Refuse,
         Compare, ManagerStep, Skip, Update, Conflict, reconcileVars, Fire, Result, HandleResult,
         Patch, PatchLost, Tick, GarbageCollect, objectVars, Crash
<1> QED BY <1>3, <1>4 DEF SpecsInv

-------------------------------------------------------------------------------
\* The manager.

LEMMA ManagerShapes ==
    ASSUME Typed
    PROVE  /\ R \in M!Threads /\ Passes \subseteq M!Threads /\ R \notin Passes
           /\ pc \in [M!Threads -> M!PCs] /\ arg \in [M!Threads -> M!Jobs \cup {NoJob}]
           /\ \A t \in M!Threads : pc[t] \notin {"idle", "g_range"} =>
                 arg[t] \in M!Jobs /\ arg[t] \in Held
           /\ \A i \in DOMAIN queue : queue[i] \in M!Jobs /\ queue[i].id = i /\ queue[i] \in Held
           /\ \A i \in DOMAIN engine : engine[i] \in M!Jobs /\ engine[i].id = i /\ engine[i] \in Held
BY HPAAssumption DEF Typed, M!TypeOK, M!Threads, M!JobMap, Held

\* Two jobs of the manager with one identifier are the same.
LEMMA SameJob ==
    ASSUME Typed, OneJobPerId, NEW h \in Held, NEW k \in Held, h.id = k.id
    PROVE  /\ h.work.job = k.work.job
           /\ Circumstances /\ Passes # {} => h.work = k.work
<1>1. h.work.job = k.work.job
      BY DEF OneJobPerId, Names
<1>2. h \in M!Jobs /\ k \in M!Jobs
      BY HeldTyped DEF Typed
<1>3. h.work \in Works /\ k.work \in Works
      BY <1>2 DEF M!Jobs
<1>4. h.work.params = k.work.params => h.work = k.work
      BY <1>1, <1>3 DEF Works
<1> QED BY <1>1, <1>3, <1>4 DEF Circumstances, Works

\* The passes see the object: they find its jobs, and schedule them.
LEMMA PassSteps ==
    ASSUME Typed, SpecsInv, TableInv, PassInv, NEW p \in Passes, M!GCStart(p) \/ M!Collect(p)
    PROVE  /\ PassInv'
           /\ UNCHANGED queue /\ pc'[R] = pc[R] /\ arg'[R] = arg[R]
           /\ engine' = engine \/ (M!GCAdd(p) /\ engine' = M!Table!Scheduled(engine, arg[p]))
<1>1. \A q \in Passes \ {p} : pc'[q] = pc[q] /\ arg'[q] = arg[q]
      BY ManagerShapes DEF M!GCStart, M!Collect, M!GCVisit, M!GCEnd, M!GCFind, M!GCGetNotFound,
         M!GCGetExists, M!GCRemove, M!GCAdd, M!DeleteLoad, M!ContinueIf, M!Return, M!Goto
<1>2. pc'[R] = pc[R] /\ arg'[R] = arg[R]
      BY ManagerShapes DEF M!GCStart, M!Collect, M!GCVisit, M!GCEnd, M!GCFind, M!GCGetNotFound,
         M!GCGetExists, M!GCRemove, M!GCAdd, M!DeleteLoad, M!ContinueIf, M!Return, M!Goto
<1>3. UNCHANGED queue
      BY DEF M!GCStart, M!Collect, M!GCVisit, M!GCEnd, M!GCFind, M!GCGetNotFound,
         M!GCGetExists, M!GCRemove, M!GCAdd, M!DeleteLoad
<1>4. p # R /\ p \in M!Threads
      BY HPAAssumption DEF M!Threads
<1>5. ~M!GCGetNotFound(p) /\ ~M!GCRemove(p) /\ ~M!DeleteLoad(p)
  <2>1. pc[p] \notin {"g_remove", "d_load"}
        BY DEF PassInv
  <2>2. pc[p] = "g_get" => arg[p].id \in AllIds
        BY <1>4, ManagerShapes DEF M!Jobs
  <2> QED BY <2>1, <2>2 DEF M!GCGetNotFound, M!GCRemove, M!DeleteLoad, SpecsInv
<1>6. \/ pc'[p] \in {"idle", "g_range"}
      \/ pc'[p] \in {"g_find", "g_get", "g_add"} /\ arg'[p].work.job.plan \in GoodPlans
  <2>1. CASE M!GCStart(p) \/ M!GCEnd(p) \/ M!GCAdd(p)
        BY <1>4, <2>1, ManagerShapes DEF M!GCStart, M!GCEnd, M!GCAdd, M!Return, M!Goto
  <2>2. CASE M!GCFind(p) \/ M!GCGetExists(p)
        BY <1>4, <2>2, ManagerShapes DEF M!GCFind, M!GCGetExists, M!ContinueIf, M!Return, M!Goto,
           PassInv
  <2>3. CASE \E id \in AllIds : M!GCVisit(p, id)
        BY <1>4, <2>3, ManagerShapes DEF M!GCVisit, M!Goto, TableInv
  <2> QED BY <1>5, <2>1, <2>2, <2>3 DEF M!Collect
<1>7. PassInv'
      BY <1>1, <1>6 DEF PassInv
<1>8. engine' = engine \/ (M!GCAdd(p) /\ engine' = M!Table!Scheduled(engine, arg[p]))
  <2>1. CASE M!GCAdd(p)
    <3>1. arg[p].work \in Works /\ arg[p].work.job.plan \in GoodPlans
          BY <1>4, <2>1, ManagerShapes DEF M!GCAdd, PassInv, M!Jobs
    <3> QED BY <2>1, <3>1 DEF M!GCAdd, M!AddJob
  <2> QED BY <1>5, <2>1 DEF M!GCStart, M!Collect, M!GCVisit, M!GCEnd, M!GCFind, M!GCGetExists
<1> QED BY <1>2, <1>3, <1>7, <1>8

\* What a pass adds is what is tracked.
LEMMA PassTable ==
    ASSUME Typed, SpecsInv, TableInv, PassInv,
           NEW p \in Passes, M!GCStart(p) \/ M!Collect(p),
           pc[p] = "g_add" =>
              /\ \A i \in DOMAIN queue : i = arg[p].id => queue[i].work = arg[p].work
              /\ pc[R] \in {"c_store", "u_store"} /\ arg[R].id = arg[p].id =>
                    arg[R].work = arg[p].work
    PROVE  TableInv'
<1>1. /\ UNCHANGED queue /\ pc'[R] = pc[R] /\ arg'[R] = arg[R]
      /\ engine' = engine \/ (M!GCAdd(p) /\ engine' = M!Table!Scheduled(engine, arg[p]))
      BY PassSteps
<1>2. CASE engine' = engine
      BY <1>1, <1>2 DEF TableInv
<1>3. CASE M!GCAdd(p) /\ engine' = M!Table!Scheduled(engine, arg[p])
  <2>1. /\ DOMAIN engine' = DOMAIN engine \cup {arg[p].id}
        /\ engine'[arg[p].id] = arg[p]
        /\ \A i \in DOMAIN engine \ {arg[p].id} : engine'[i] = engine[i]
        BY <1>3 DEF M!Table!Scheduled
  <2>2. pc[p] = "g_add"
        BY <1>3 DEF M!GCAdd
  <2> QED BY <1>1, <2>1, <2>2 DEF TableInv
<1> QED BY <1>1, <1>2, <1>3

\* The worker's steps in the manager.
LEMMA WorkerTable ==
    ASSUME Typed, TableInv,
           \A i \in DOMAIN queue : \A h \in Held :
              h.id = i => h.work.job = queue[i].work.job,
           \/ \E id \in AllIds, work \in Works : M!CreateLoad([id |-> id, work |-> work])
           \/ \E id \in AllIds : M!CallDelete(id)
           \/ M!Create \/ M!DeleteRemove(R) \/ M!DeleteDrop(R)
    PROVE  TableInv'
<1> DEFINE j == arg[R]
<1>1. CASE \/ \E id \in AllIds, work \in Works : M!CreateLoad([id |-> id, work |-> work])
           \/ \E id \in AllIds : M!CallDelete(id)
  <2>1. /\ pc[R] = "idle" /\ UNCHANGED <<queue, engine>>
        /\ pc'[R] \in {"c_again", "c_add", "d_remove"}
        /\ pc'[R] = "c_again" => arg'[R].id \in DOMAIN queue
        /\ pc'[R] = "c_add" => arg'[R].id \notin DOMAIN queue
        BY <1>1, ManagerShapes DEF M!CreateLoad, M!CallDelete, M!Goto
  <2> QED BY <2>1 DEF TableInv
<1>2. ASSUME pc[R] \notin {"idle", "g_range"}
      PROVE  j \in M!Jobs /\ j.work \in Works /\ j \in Held
      BY <1>2, ManagerShapes DEF M!Jobs
<1>3. CASE M!CreateAdd \/ M!UpdateAdd
  <2>1. pc[R] \in {"c_add", "u_add"} /\ queue' = queue
        BY <1>3 DEF M!CreateAdd, M!UpdateAdd
  <2>2. CASE j.work.job.plan \in GoodPlans
    <3>1. /\ engine' = M!Table!Scheduled(engine, j) /\ arg' = arg
          /\ pc'[R] = IF pc[R] = "c_add" THEN "c_store" ELSE "u_store"
          BY <1>2, <1>3, <2>2, ManagerShapes DEF M!CreateAdd, M!UpdateAdd, M!AddJob, M!ContinueIf,
             M!Goto
    <3>2. /\ DOMAIN engine' = DOMAIN engine \cup {j.id} /\ engine'[j.id] = j
          /\ \A i \in DOMAIN engine \ {j.id} : engine'[i] = engine[i]
          BY <3>1 DEF M!Table!Scheduled
    <3> QED BY <2>1, <2>2, <3>1, <3>2 DEF TableInv
  <2>3. CASE j.work.job.plan \notin GoodPlans
    <3>1. pc[R] = "c_add"
      <4> SUFFICES ASSUME pc[R] = "u_add" PROVE FALSE
          BY <2>1
      <4>1. j.id \in DOMAIN queue
            BY DEF TableInv
      <4>2. queue[j.id].work.job = j.work.job
            BY <1>2, <4>1
      <4> QED BY <2>3, <4>1, <4>2 DEF TableInv
    <3>2. engine' = engine /\ pc'[R] = "idle"
          BY <1>3, <2>3, <3>1, ManagerShapes DEF M!CreateAdd, M!UpdateAdd, M!AddJob, M!ContinueIf,
             M!Return, M!Goto
    <3> QED BY <2>1, <3>1, <3>2 DEF TableInv
  <2> QED BY <2>2, <2>3
<1>4. CASE M!CreateStore \/ M!UpdateStore
  <2>1. /\ pc[R] \in {"c_store", "u_store"} /\ engine' = engine /\ pc'[R] = "idle"
        /\ queue' = M!Table!Scheduled(queue, j)
        BY <1>4, ManagerShapes DEF M!CreateStore, M!UpdateStore, M!Store, M!Return, M!Goto
  <2>2. /\ DOMAIN queue' = DOMAIN queue \cup {j.id} /\ queue'[j.id] = j
        /\ \A i \in DOMAIN queue \ {j.id} : queue'[i] = queue[i]
        BY <2>1 DEF M!Table!Scheduled
  <2> QED BY <2>1, <2>2 DEF TableInv
<1>5. CASE M!CreateAgain
  <2>1. /\ pc[R] = "c_again" /\ UNCHANGED <<queue, engine>>
        /\ pc'[R] = "idle" \/ (pc'[R] = "u_remove" /\ arg'[R] = j)
        BY <1>5, ManagerShapes DEF M!CreateAgain, M!ContinueIf, M!Return, M!Goto
  <2> QED BY <2>1 DEF TableInv
<1>6. CASE M!UpdateRemove \/ M!DeleteRemove(R)
  <2>1. /\ pc[R] \in {"u_remove", "d_remove"} /\ UNCHANGED <<queue, arg>>
        /\ pc'[R] = IF pc[R] = "u_remove" THEN "u_add" ELSE "d_drop"
        /\ engine' = M!Table!Unscheduled(engine, j.id)
        BY <1>6, ManagerShapes DEF M!UpdateRemove, M!DeleteRemove, M!RemoveJob, M!Goto
  <2>2. /\ DOMAIN engine' = DOMAIN engine \ {j.id}
        /\ \A i \in DOMAIN engine \ {j.id} : engine'[i] = engine[i]
        BY <2>1 DEF M!Table!Unscheduled
  <2> QED BY <2>1, <2>2 DEF TableInv
<1>7. CASE M!DeleteDrop(R)
  <2>1. /\ pc[R] = "d_drop" /\ pc'[R] = "idle" /\ engine' = engine
        /\ queue' = M!Table!Unscheduled(queue, j.id)
        BY <1>7, ManagerShapes DEF M!DeleteDrop, M!Return, M!Goto
  <2>2. /\ DOMAIN queue' = DOMAIN queue \ {j.id}
        /\ \A i \in DOMAIN queue \ {j.id} : queue'[i] = queue[i]
        BY <2>1 DEF M!Table!Unscheduled
  <2> QED BY <2>1, <2>2 DEF TableInv
<1> QED BY <1>1, <1>3, <1>4, <1>5, <1>6, <1>7 DEF M!Create

\* What a step is to the manager.
LEMMA ManagerSees ==
    ASSUME ListsInv, [Next]_vars
    PROVE  \/ UNCHANGED managerVars
           \/ M!Restart
           \/ \E p \in Passes :
                  M!GCStart(p) \/ M!Collect(p) \/ M!DeleteRemove(p) \/ M!DeleteDrop(p)
           \/ \E id \in AllIds, work \in Works : M!CreateLoad([id |-> id, work |-> work])
           \/ \E id \in AllIds : M!CallDelete(id)
           \/ M!Create \/ M!DeleteRemove(R) \/ M!DeleteDrop(R)
<1>1. CASE UNCHANGED managerVars \/ Crash
      BY <1>1 DEF Crash
<1>2. CASE User \/ Sync \/ Resync \/ UpdateFails \/ UNCHANGED vars
           \/ \E id \in AllIds : Fire(id) \/ Result(id)
  <2>1. UNCHANGED managerVars
        BY <1>2 DEF User, UserEdit, UserDelete, UserCreate, Sync, Resync, UpdateFails, vars, Fire,
           Result, HandleResult, Patch, PatchLost
  <2> QED BY <2>1
<1>3. CASE \E p \in Passes : Tick(p) \/ GarbageCollect(p)
      BY <1>3 DEF Tick, GarbageCollect
<1>4. CASE Reconcile
  <2>1. CASE Read \/ ReadGone \/ Skip \/ Update \/ Conflict
        BY <2>1 DEF Read, ReadGone, Skip, Update, Conflict
  <2>2. CASE \E id \in AllIds : DeleteOne(id)
        BY <2>2 DEF DeleteOne
  <2>3. ASSUME NEW j \in JobSpecs, JobInvalid(j) \/ JobDone(j) \/ JobCreate(j)
        PROVE  \/ UNCHANGED managerVars
               \/ \E id \in AllIds, work \in Works : M!CreateLoad([id |-> id, work |-> work])
    <3>1. CASE JobCreate(j)
      <4>1. rec.inst.params \in Params
            BY <3>1 DEF JobCreate, HandleJob, ListsInv
      <4>2. [job |-> j, params |-> rec.inst.params] \in Works
            BY <4>1 DEF Works
      <4> QED BY <3>1, <4>2 DEF JobCreate
    <3> QED BY <2>3, <3>1 DEF JobInvalid, JobDone
  <2>4. CASE Submit \/ Refuse \/ Compare \/ ManagerStep
        BY <2>4 DEF Submit, Refuse, Compare, ManagerStep, M!Create
  <2> QED BY <1>4, <2>1, <2>2, <2>3, <2>4 DEF Reconcile
<1> QED BY <1>1, <1>2, <1>3, <1>4 DEF Next

\* Passes that see the object delete nothing.
LEMMA ManagerMoves ==
    ASSUME SpecsInv, PassInv, [Next]_vars
    PROVE  \/ UNCHANGED managerVars
           \/ M!Restart
           \/ \E p \in Passes : M!GCStart(p) \/ M!Collect(p)
           \/ \E id \in AllIds, work \in Works : M!CreateLoad([id |-> id, work |-> work])
           \/ \E id \in AllIds : M!CallDelete(id)
           \/ M!Create \/ M!DeleteRemove(R) \/ M!DeleteDrop(R)
BY ManagerSees DEF SpecsInv, PassInv, M!DeleteRemove, M!DeleteDrop

\* The worker's steps are not the passes'.
LEMMA WorkerApart ==
    ASSUME Typed, PassInv,
           \/ \E id \in AllIds, work \in Works : M!CreateLoad([id |-> id, work |-> work])
           \/ \E id \in AllIds : M!CallDelete(id)
           \/ M!Create \/ M!DeleteRemove(R) \/ M!DeleteDrop(R)
    PROVE  PassInv'
<1>1. \A p \in Passes : pc'[p] = pc[p] /\ arg'[p] = arg[p]
      BY ManagerShapes DEF M!CreateLoad, M!CallDelete, M!Create, M!CreateAdd, M!CreateStore,
         M!CreateAgain, M!UpdateRemove, M!UpdateAdd, M!UpdateStore, M!DeleteRemove, M!DeleteDrop,
         M!ContinueIf, M!Return, M!Goto
<1> QED BY <1>1 DEF PassInv

LEMMA ManagerStays ==
    ASSUME TableInv, PassInv, UNCHANGED managerVars
    PROVE  TableInv' /\ PassInv'
BY DEF TableInv, PassInv, managerVars

LEMMA ManagerStarts ==
    ASSUME M!Restart
    PROVE  TableInv' /\ PassInv' /\ pc'[R] = "idle"
BY DEF M!Restart, TableInv, PassInv, M!Threads

LEMMA TableStep ==
    ASSUME Typed, StatusInv, OneJobPerId, SpecsInv, Circumstances, TableInv, PassInv, [Next]_vars
    PROVE  TableInv' /\ PassInv'
<1>1. ASSUME NEW p \in Passes, M!GCStart(p) \/ M!Collect(p)
      PROVE  TableInv' /\ PassInv'
  <2>1. /\ \A i \in DOMAIN queue : queue[i] \in Held /\ queue[i].id = i
        /\ pc[p] = "g_add" => arg[p] \in Held
        /\ pc[R] \in {"c_store", "u_store"} => arg[R] \in Held
        BY ManagerShapes
  <2> QED BY <1>1, <2>1, SameJob, PassSteps, PassTable
<1>2. \A i \in DOMAIN queue : \A h \in Held : h.id = i => h.work.job = queue[i].work.job
      BY ManagerShapes, SameJob
<1> QED BY <1>1, <1>2, ManagerMoves, ManagerStays, ManagerStarts, WorkerApart, WorkerTable

-------------------------------------------------------------------------------
\* The reconcile in progress.

\* Steps of others than the worker, and the end of a reconcile.
LEMMA CallsStay ==
    ASSUME CallInv, NamesKept, UNCHANGED queue, pc'[R] = pc[R], arg'[R] = arg[R],
           rec'.active => /\ rec.active
                          /\ rec'.dels = rec.dels /\ rec'.jobs = rec.jobs
                          /\ rec'.inst.jobs = rec.inst.jobs /\ rec'.inst.params = rec.inst.params
    PROVE  CallInv'
BY DEF CallInv, NamesKept, Calling, Deleting, Queued

LEMMA ReadCalls == Typed /\ StatusInv /\ Read => CallInv'
<1> SUFFICES ASSUME Typed, StatusInv, Read PROVE CallInv'
    OBVIOUS
<1>1. /\ \E kept : rec'.inst = [cache EXCEPT !.sparams = cache.params, !.conds = kept]
      /\ rec'.jobs = cache.jobs /\ pc'[R] = "idle"
      BY DEF Read, Resting, managerVars, StatusInv, WorkInv, Popped
<1>2. rec'.jobs = rec'.inst.jobs
      BY <1>1 DEF Typed, CopyInv, Shapes, Absent
<1> QED BY <1>1, <1>2 DEF CallInv, CallPCs

LEMMA DeleteCalls ==
    ASSUME Typed, CallInv, NamesKept, NEW id \in AllIds, DeleteOne(id)
    PROVE  CallInv'
<1>1. /\ rec.active /\ pc[R] = "idle" /\ id \in rec.dels
      /\ rec'.dels = rec.dels \ {id} /\ rec'.jobs = rec.jobs /\ rec'.inst = rec.inst
      BY RecFields DEF DeleteOne, Typed, CopyInv, Fields
<1>2. /\ queue' = queue /\ pc'[R] \in {"idle", "d_remove"}
      /\ pc'[R] = "d_remove" => arg'[R].id = id
      BY <1>1, ManagerShapes DEF DeleteOne, M!CallDelete, M!Goto, managerVars
<1>3. \A i : Deleting(i)' => Deleting(i)
      BY <1>1, <1>2 DEF Deleting
<1>4. \A k : ~Calling(k)
      BY <1>1 DEF Calling, CallPCs
<1> QED BY <1>1, <1>2, <1>3, <1>4 DEF CallInv, CallPCs, NamesKept, Queued

LEMMA DoneCalls ==
    ASSUME Typed, StatusInv, SpecsInv, Circumstances, OneJobPerId, CallInv, NamesKept,
           NEW j, JobDone(j)
    PROVE  CallInv'
<1>1. PICK c \in KeptOf(j) : j.once /\ rec' = [Taken(j) EXCEPT !.dels = {c.id}]
      BY DEF JobDone
<1>2. /\ rec.active /\ pc[R] = "idle" /\ rec.dels = {} /\ UNCHANGED <<queue, pc, arg>>
      /\ j \in rec.inst.jobs
      BY DEF JobDone, HandleJob, managerVars, Typed, CTypes, RecTypes
<1>3. rec'.dels = {c.id} /\ rec'.jobs = rec.jobs \ {j} /\ rec'.inst = rec.inst
  <2>1. /\ DOMAIN Taken(j) = Fields /\ Taken(j).inst = rec.inst
        /\ Taken(j).jobs = rec.jobs \ {j}
        BY TakenFields DEF Typed, CopyInv
  <2> QED BY <1>1, <2>1 DEF Fields
<1>4. c.job = j /\ c \in Listed
      BY <1>2, KeptJob DEF KeptOf, Listed, SpecsInv, Circumstances
<1>5. \A k : Names(c.id, k)' => k.once
  <2>1. Names(c.id, j)
        BY <1>4 DEF Names
  <2> QED BY <1>1, <2>1 DEF NamesKept, OneJobPerId
<1>6. \A i : Deleting(i)' => i = c.id
      BY <1>2, <1>3 DEF Deleting
<1>7. ASSUME NEW k \in rec.inst.jobs, Scheduling(k), k \notin rec'.jobs
      PROVE  Queued(k, rec.inst.params)'
  <2>1. k # j /\ k \notin rec.jobs /\ ~Calling(k)
        BY <1>1, <1>2, <1>3, <1>7 DEF Scheduling, Calling, CallPCs
  <2> QED BY <1>2, <1>3, <1>7, <2>1 DEF CallInv, Queued
<1>8. pc'[R] \notin CallPCs
      BY <1>2 DEF CallPCs
<1> QED BY <1>3, <1>5, <1>6, <1>7, <1>8 DEF CallInv, Queued

LEMMA CreateCalls ==
    ASSUME Typed, CallInv, NEW j, JobCreate(j)
    PROVE  CallInv'
<1>1. /\ rec.active /\ pc[R] = "idle" /\ rec.dels = {}
      BY DEF JobCreate, HandleJob
<1>2. /\ rec'.dels = {} /\ rec'.jobs = rec.jobs \ {j} /\ rec'.inst = rec.inst
  <2>1. /\ Taken(j).dels = rec.dels /\ Taken(j).inst = rec.inst
        /\ Taken(j).jobs = rec.jobs \ {j}
        BY TakenFields DEF Typed, CopyInv
  <2> QED BY <1>1, <2>1 DEF JobCreate
<1>3. /\ queue' = queue /\ pc'[R] \in {"c_add", "c_again"}
      /\ arg'[R].work.job = j /\ arg'[R].work.params = rec.inst.params
      BY ManagerShapes DEF JobCreate, M!CreateLoad, M!Goto
<1>4. \A i : ~Deleting(i)'
      BY <1>2, <1>3 DEF Deleting
<1>5. ASSUME NEW k \in rec.inst.jobs, Scheduling(k), k \notin rec'.jobs, ~Calling(k)'
      PROVE  Queued(k, rec.inst.params)'
  <2>1. k # j
        BY <1>3, <1>5 DEF Calling, CallPCs
  <2>2. k \notin rec.jobs /\ ~Calling(k)
        BY <1>1, <1>2, <1>5, <2>1 DEF Calling, CallPCs
  <2> QED BY <1>1, <1>2, <1>3, <1>5, <2>2 DEF CallInv, Queued
<1> QED BY <1>2, <1>3, <1>4, <1>5 DEF CallInv, Queued

\* The end of a call: its job is tracked as the spec has it, or cannot be.
LEMMA CallEnds ==
    ASSUME Typed, CallInv, rec.active, pc[R] \in CallPCs, pc'[R] = "idle",
           /\ rec'.dels = rec.dels /\ rec'.jobs = rec.jobs
           /\ rec'.inst.jobs = rec.inst.jobs /\ rec'.inst.params = rec.inst.params,
           \A k : Scheduling(k) /\ (Calling(k) \/ Queued(k, rec.inst.params)) =>
                     Queued(k, rec.inst.params)'
    PROVE  CallInv'
<1>1. rec'.dels = {}
      BY DEF CallInv
<1>2. \A i : ~Deleting(i)'
      BY <1>1 DEF Deleting
<1> QED BY <1>1, <1>2 DEF CallInv, CallPCs, Queued

LEMMA SubmitCalls ==
    ASSUME Typed, StatusInv, OneJobPerId, CallInv, Submit
    PROVE  CallInv'
<1> DEFINE j == arg[R]
<1>1. pc[R] \in {"c_store", "u_store"} /\ rec.active
      BY DEF Submit, StatusInv, WorkInv
<1>2. j \in Held /\ j.work \in Works
      BY <1>1, ManagerShapes DEF M!Jobs
<1>3. pc'[R] = "idle" /\ queue' = M!Table!Scheduled(queue, j)
      BY ManagerShapes DEF Submit, M!CreateStore, M!UpdateStore, M!Store, M!Return, M!Goto
<1>4. /\ DOMAIN queue' = DOMAIN queue \cup {j.id} /\ queue'[j.id] = j
      /\ \A i \in DOMAIN queue \ {j.id} : queue'[i] = queue[i]
      BY <1>3 DEF M!Table!Scheduled
<1>5. PICK state : rec' = Recorded(rec, j.work.job, j.id, state)
      BY DEF Submit, Record
<1>6. ASSUME NEW k, Calling(k) \/ Queued(k, rec.inst.params)
      PROVE  Queued(k, rec.inst.params)'
  <2>1. CASE Calling(k)
    <3>1. j.work.job = k /\ j.work.params = rec.inst.params
          BY <1>1, <2>1 DEF Calling, CallInv
    <3>2. j.work = Work(k, rec.inst.params)
          BY <1>2, <3>1 DEF Works, Work
    <3>3. j.work = Work(k, rec'.inst.params)
          BY <1>5, <3>2, RecordedFields
    <3> QED BY <1>4, <3>3 DEF Queued, Work
  <2>2. CASE ~Calling(k)
    <3>1. PICK i \in DOMAIN queue : queue[i].work = Work(k, rec.inst.params)
          BY <1>6, <2>2 DEF Queued
    <3>2. queue[i].work.job = k
          BY <3>1 DEF Work
    <3>3. i # j.id
          BY <1>1, <1>2, <2>2, <3>2, ManagerShapes, SameJob DEF Calling, CallPCs
    <3> QED BY <1>4, <1>5, <3>1, <3>3, RecordedFields DEF Queued, Work
  <2> QED BY <2>1, <2>2
<1> HIDE DEF j
<1>7. \A k : Scheduling(k) /\ (Calling(k) \/ Queued(k, rec.inst.params)) =>
                Queued(k, rec.inst.params)'
      BY <1>6
<1>8. pc[R] \in CallPCs
      BY <1>1 DEF CallPCs
<1> QED BY <1>1, <1>3, <1>5, <1>7, <1>8, RecordedFields, CallEnds

\* The worker goes on within a call.
LEMMA CallGoesOn ==
    ASSUME CallInv, NamesKept, UNCHANGED <<rec, queue>>, arg'[R] = arg[R],
           \/ pc[R] \in CallPCs /\ pc'[R] \in CallPCs
           \/ pc[R] = "d_remove" /\ pc'[R] = "d_drop"
    PROVE  CallInv'
<1>1. \A i : Deleting(i)' => Deleting(i)
      BY DEF Deleting, CallPCs
<1>2. \A k : Calling(k) => Calling(k)'
      BY DEF Calling, CallPCs
<1> QED BY <1>1, <1>2 DEF CallInv, NamesKept, CallPCs, Queued

LEMMA RefuseCalls ==
    ASSUME Typed, CallInv, NamesKept, WorkInv, Refuse
    PROVE  CallInv'
<1>1. /\ pc[R] \in {"c_add", "u_add"} /\ rec.active /\ queue' = queue
      /\ arg[R].work \in Works
      BY ManagerShapes DEF Refuse, M!CreateAdd, M!UpdateAdd, WorkInv, M!Jobs
<1>2. CASE arg[R].work.job.plan \in GoodPlans
  <2>1. arg'[R] = arg[R] /\ pc'[R] \in {"c_store", "u_store"} /\ rec' = rec
        BY <1>1, <1>2, ManagerShapes DEF Refuse, M!CreateAdd, M!UpdateAdd, M!ContinueIf, M!Goto
  <2> QED BY <1>1, <2>1, CallGoesOn DEF CallPCs
<1>3. CASE arg[R].work.job.plan \notin GoodPlans
  <2>1. pc'[R] = "idle"
        BY <1>1, <1>3, ManagerShapes DEF Refuse, M!CreateAdd, M!UpdateAdd, M!ContinueIf, M!Return,
           M!Goto
  <2>2. rec' = Recorded(rec, arg[R].work.job, arg[R].id, "Failed")
        BY <1>3 DEF Refuse, Record
  <2>3. /\ rec'.dels = rec.dels /\ rec'.jobs = rec.jobs
        /\ rec'.inst.jobs = rec.inst.jobs /\ rec'.inst.params = rec.inst.params
        BY <2>2, RecordedFields
  <2>4. \A k : Scheduling(k) /\ (Calling(k) \/ Queued(k, rec.inst.params)) =>
                  Queued(k, rec.inst.params)'
        BY <1>1, <1>3, <2>3 DEF Scheduling, Calling, Queued
  <2>5. pc[R] \in CallPCs
        BY <1>1 DEF CallPCs
  <2> QED BY <1>1, <2>1, <2>3, <2>4, <2>5, CallEnds
<1> QED BY <1>2, <1>3

\* A tracked job that needs no update is tracked as it should be: the comparison sees
\* the plan and the target, and these make the work.
LEMMA CompareCalls ==
    ASSUME Typed, StatusInv, SpecsInv, Circumstances, OneJobPerId, TableInv, CallInv, NamesKept,
           Compare
    PROVE  CallInv'
<1> DEFINE j == arg[R]
<1>1. pc[R] = "c_again" /\ rec.active /\ queue' = queue /\ j.id \in DOMAIN queue /\ rec' = rec
      BY DEF Compare, M!CreateAgain, StatusInv, WorkInv, TableInv
<1>2. j \in Held /\ j.work \in Works /\ queue[j.id].work \in Works /\ queue[j.id] \in Held
      BY <1>1, ManagerShapes DEF M!Jobs
<1>3. CASE pc'[R] = "u_remove" /\ arg'[R] = arg[R]
      BY <1>1, <1>3, CallGoesOn DEF CallPCs
<1>4. CASE ~(pc'[R] = "u_remove" /\ arg'[R] = arg[R])
  <2>1. pc'[R] = "idle" /\ M!Equals(queue[j.id], j)
        BY <1>1, <1>4, ManagerShapes DEF Compare, M!CreateAgain, M!ContinueIf, M!Return, M!Goto
  <2>2. RefOf[queue[j.id].work.params] = RefOf[j.work.params]
        BY <1>2, <2>1 DEF M!Equals
  <2>3. queue[j.id].work.params = j.work.params
        BY <1>2, <2>2 DEF Circumstances, Works
  <2>4. queue[j.id].work.job = j.work.job
        BY <1>1, <1>2, ManagerShapes, SameJob
  <2>5. queue[j.id].work = Work(j.work.job, rec.inst.params)
        BY <1>1, <1>2, <2>3, <2>4 DEF CallInv, CallPCs, Works, Work
  <2>6. \A k : Scheduling(k) /\ (Calling(k) \/ Queued(k, rec.inst.params)) =>
                  Queued(k, rec.inst.params)'
        BY <1>1, <2>5 DEF Calling, Queued, Work
  <2>7. pc[R] \in CallPCs
        BY <1>1 DEF CallPCs
  <2> HIDE DEF j
  <2> QED BY <1>1, <2>1, <2>6, <2>7, CallEnds
<1> QED BY <1>3, <1>4

\* What is deleted is not what has been scheduled.
LEMMA DropCalls ==
    ASSUME Typed, CallInv, NamesKept, WorkInv, M!DeleteDrop(R), rec' = rec
    PROVE  CallInv'
<1> DEFINE id == arg[R].id
<1>1. /\ pc[R] = "d_drop" /\ pc'[R] = "idle" /\ queue' = M!Table!Unscheduled(queue, id)
      /\ rec.active
      BY ManagerShapes DEF M!DeleteDrop, M!Return, M!Goto, WorkInv
<1>2. /\ DOMAIN queue' = DOMAIN queue \ {id}
      /\ \A i \in DOMAIN queue \ {id} : queue'[i] = queue[i]
      BY <1>1 DEF M!Table!Unscheduled
<1>3. \A i : Deleting(i)' => Deleting(i)
      BY <1>1 DEF Deleting
<1>4. ASSUME NEW k \in rec.inst.jobs, Scheduling(k), k \notin rec.jobs
      PROVE  Queued(k, rec.inst.params)'
  <2>1. PICK i \in DOMAIN queue : queue[i].work = Work(k, rec.inst.params)
        BY <1>1, <1>4 DEF CallInv, Calling, CallPCs, Queued
  <2>2. Names(i, k)
        BY <2>1, ManagerShapes DEF Names, Work
  <2>3. Deleting(id)
        BY <1>1 DEF Deleting
  <2>4. i # id
    <3> HIDE DEF id
    <3> QED BY <1>1, <1>4, <2>2, <2>3 DEF CallInv, Scheduling
  <2> QED BY <1>2, <2>1, <2>4 DEF Queued, Work
<1> HIDE DEF id
<1> QED BY <1>1, <1>3, <1>4 DEF CallInv, CallPCs, NamesKept, Queued

LEMMA WorkerCalls ==
    ASSUME Typed, StatusInv, SpecsInv, Circumstances, OneJobPerId, TableInv, CallInv, NamesKept,
           Submit \/ Refuse \/ Compare \/ ManagerStep
    PROVE  CallInv'
<1>1. ASSUME ManagerStep, ~M!DeleteDrop(R)
      PROVE  CallInv'
  <2>1. /\ UNCHANGED <<rec, queue>> /\ arg'[R] = arg[R]
        /\ \/ pc[R] = "u_remove" /\ pc'[R] = "u_add"
           \/ pc[R] = "d_remove" /\ pc'[R] = "d_drop"
        BY <1>1, ManagerShapes DEF ManagerStep, M!UpdateRemove, M!DeleteRemove, M!Goto
  <2> QED BY <2>1, CallGoesOn DEF CallPCs
<1>2. ASSUME ManagerStep, M!DeleteDrop(R)
      PROVE  CallInv'
      BY <1>2, DropCalls DEF ManagerStep, StatusInv
<1> QED BY <1>1, <1>2, SubmitCalls, RefuseCalls, CompareCalls DEF StatusInv

LEMMA OtherCalls ==
    ASSUME Typed, StatusInv, SpecsInv, TableInv, PassInv, CallInv, NamesKept,
           \/ User \/ Sync \/ Resync \/ UpdateFails \/ UNCHANGED vars
           \/ Skip \/ Update \/ Conflict \/ ReadGone \/ Crash
           \/ \E id \in AllIds : Fire(id) \/ Result(id)
           \/ \E p \in Passes : Tick(p) \/ GarbageCollect(p)
    PROVE  CallInv'
<1>1. CASE Skip \/ Update \/ Conflict \/ UpdateFails \/ Crash
      BY <1>1, RestingNames DEF Skip, Update, Conflict, UpdateFails, Crash, CallInv
<1>2. CASE \/ Sync \/ Resync \/ UNCHANGED vars
           \/ \E id \in AllIds : Fire(id) \/ HandleResult(id) \/ PatchLost(id)
  <2>1. UNCHANGED <<rec, queue, pc, arg>>
        BY <1>2 DEF Sync, Resync, vars, managerVars, Fire, HandleResult, PatchLost
  <2> QED BY <2>1, CallsStay
<1>3. ASSUME NEW o, Versioned(o), UNCHANGED managerVars
      PROVE  CallInv'
  <2>1. /\ rec'.active = rec.active /\ rec'.dels = rec.dels /\ rec'.jobs = rec.jobs
        /\ rec'.inst = rec.inst
        BY <1>3, RecFields DEF Versioned, Typed, CopyInv, Fields
  <2> QED BY <1>3, <2>1, CallsStay DEF managerVars
<1>4. CASE User \/ \E id \in AllIds : Patch(id)
      BY <1>3, <1>4 DEF User, UserEdit, UserDelete, UserCreate, Patch
<1>5. CASE ReadGone \/ \E p \in Passes : Tick(p) \/ GarbageCollect(p)
  <2>1. rec' = rec /\ \E p \in Passes : M!GCStart(p) \/ M!Collect(p)
        BY <1>5 DEF ReadGone, Tick, GarbageCollect, objectVars, PassInv, M!DeleteRemove, M!DeleteDrop
  <2> QED BY <2>1, PassSteps, CallsStay
<1> QED BY <1>1, <1>2, <1>4, <1>5 DEF Result

LEMMA CallsStep ==
    ASSUME Typed, StatusInv, OneJobPerId, SpecsInv, Circumstances, TableInv, PassInv, CallInv,
           [Next]_vars
    PROVE  CallInv'
<1>1. CASE \E j \in JobSpecs : JobCreate(j)
      BY <1>1, CreateCalls
<1>2. CASE NamesKept
  <2>1. CASE \E j \in JobSpecs : JobInvalid(j) \/ JobDone(j) \/ JobCreate(j)
        BY <1>2, <2>1, AllValid, DoneCalls, CreateCalls
  <2>2. CASE Reconcile
        BY <1>2, <2>1, <2>2, ReadCalls, DeleteCalls, WorkerCalls, OtherCalls DEF Reconcile
  <2> QED BY <1>2, <2>2, OtherCalls DEF Next
<1> QED BY <1>1, <1>2, NamesStep

-------------------------------------------------------------------------------
\* Between reconciles.

LEMMA EndQueued ==
    ASSUME Typed, StatusInv, CallInv, Skip \/ Update \/ Conflict \/ UpdateFails
    PROVE  RestQueued'
<1>1. /\ rec.active /\ pc[R] = "idle" /\ rec.jobs = {} /\ queue' = queue /\ due' = due
      BY DEF Skip, Update, Conflict, UpdateFails, Handled, managerVars, reconcileVars
<1>2. \A j \in rec.inst.jobs : Scheduling(j) => Queued(j, rec.inst.params)
      BY <1>1 DEF CallInv, Calling, CallPCs
<1>3. CASE rec.stale
  <2>1. UNCHANGED <<obj, cstale>>
        BY <1>3 DEF Skip, Update, Conflict, UpdateFails, reconcileVars
  <2> QED BY <1>1, <1>3, <2>1 DEF StatusInv, InstInv, RestQueued, AtRest
<1>4. CASE ~rec.stale
  <2>1. Same(rec.inst, obj)
        BY <1>1, <1>4 DEF Typed, CopyInv
  <2>2. Same(obj', obj)
        BY <2>1 DEF Skip, Update, Conflict, UpdateFails, reconcileVars, Same
  <2> QED BY <1>1, <1>2, <2>1, <2>2 DEF RestQueued, Queued, Same
<1> QED BY <1>3, <1>4

LEMMA GoesOn ==
    ASSUME Typed, StatusInv,
           \/ \E id \in AllIds : DeleteOne(id)
           \/ \E j \in JobSpecs : JobInvalid(j) \/ JobDone(j) \/ JobCreate(j)
           \/ Submit \/ Refuse \/ Compare \/ ManagerStep
    PROVE  rec'.active
<1>1. DOMAIN rec = Fields /\ Shapes
      BY RecFields DEF Typed, CopyInv
<1>2. CASE \E id \in AllIds : DeleteOne(id)
      BY <1>1, <1>2 DEF DeleteOne, Fields
<1>3. ASSUME NEW j, JobInvalid(j) \/ JobDone(j) \/ JobCreate(j)
      PROVE  rec'.active
  <2>1. /\ DOMAIN Taken(j) = DOMAIN Resting /\ DOMAIN Taken(j).inst = DOMAIN Absent
        /\ Taken(j).active
        BY <1>1, <1>3, TakenKeeps DEF Shapes, JobInvalid, JobDone, JobCreate, HandleJob
  <2>2. Recorded(Taken(j), j, NoId, "Failed").active
        BY <2>1, RecordedKeeps
  <2> QED BY <1>3, <2>1, <2>2 DEF JobInvalid, JobDone, JobCreate, Resting
<1>4. CASE Submit \/ Refuse \/ Compare \/ ManagerStep
  <2>1. rec.active
        BY <1>4 DEF Submit, Refuse, Compare, ManagerStep, M!UpdateRemove, M!DeleteRemove,
           M!DeleteDrop, StatusInv, WorkInv
  <2>2. rec' = rec \/ \E j, id, state : rec' = Recorded(rec, j, id, state)
        BY <1>4 DEF Submit, Refuse, Compare, ManagerStep, Record
  <2> QED BY <2>1, <2>2, RecordedFields
<1> QED BY <1>2, <1>3, <1>4

\* A reconcile is in progress or there is a reason for one, or nothing changes that
\* matters between reconciles, or a reconcile ends.
LEMMA RestMoves ==
    ASSUME Typed, StatusInv, SpecsInv, TableInv, PassInv, [Next]_vars
    PROVE  \/ rec'.active \/ cstale' \/ due' \/ ~obj'.there
           \/ UNCHANGED <<obj, queue, rec, cstale, due>>
           \/ Skip \/ Update \/ Conflict \/ UpdateFails
<1>1. ASSUME NEW o, Versioned(o) PROVE cstale'
      BY <1>1 DEF Versioned
<1>2. CASE User \/ \E id \in AllIds : Patch(id)
      BY <1>1, <1>2 DEF User, UserEdit, UserDelete, UserCreate, Patch
<1>3. CASE Sync \/ Resync \/ Read \/ Crash
      BY <1>3 DEF Sync, Resync, Read, Resting, Crash
<1>4. CASE \/ UNCHANGED vars
           \/ \E id \in AllIds : Fire(id) \/ HandleResult(id) \/ PatchLost(id)
      BY <1>4 DEF vars, managerVars, Fire, HandleResult, PatchLost
<1>5. CASE \E p \in Passes : Tick(p) \/ GarbageCollect(p)
  <2>1. UNCHANGED <<obj, rec, cstale, due>> /\ \E p \in Passes : M!GCStart(p) \/ M!Collect(p)
        BY <1>5 DEF Tick, GarbageCollect, objectVars, PassInv, M!DeleteRemove, M!DeleteDrop
  <2> QED BY <2>1, PassSteps
<1>6. ~ReadGone
      BY DEF ReadGone, SpecsInv
<1> QED BY <1>2, <1>3, <1>4, <1>5, <1>6, GoesOn DEF Next, Reconcile, Result

LEMMA RestStep ==
    ASSUME Typed, StatusInv, SpecsInv, TableInv, PassInv, CallInv, RestQueued, [Next]_vars
    PROVE  RestQueued'
<1>1. CASE rec'.active \/ cstale' \/ due' \/ ~obj'.there
      BY <1>1 DEF RestQueued, AtRest
<1>2. CASE UNCHANGED <<obj, queue, rec, cstale, due>>
      BY <1>2 DEF RestQueued, AtRest, Queued
<1> QED BY <1>1, <1>2, RestMoves, EndQueued

LEMMA ScheduleInit == Init => ScheduleInv
<1> SUFFICES ASSUME Init PROVE ScheduleInv
    OBVIOUS
<1>1. /\ obj.conds = {} /\ cache = obj /\ rec = Resting /\ due = TRUE
      /\ run = [i \in AllIds |-> NoRun]
      BY DEF Init, Created, Absent
<1>2. /\ DOMAIN queue = {} /\ DOMAIN engine = {}
      /\ \A t \in M!Threads : pc[t] = "idle"
      BY DEF Init, M!Init
<1>4. TableInv /\ PassInv
      BY <1>2 DEF TableInv, PassInv, M!Threads
<1>5. CallInv /\ RestQueued
      BY <1>1, RestingNames DEF CallInv, RestQueued, AtRest
<1> QED BY <1>4, <1>5, NamesInit, SpecsInit DEF ScheduleInv

LEMMA ScheduleStep ==
    ASSUME Circumstances
    PROVE  Typed /\ StatusInv /\ ScheduleInv /\ [Next]_vars => ScheduleInv'
BY OneJobStep, SpecsStep, TableStep, CallsStep, RestStep DEF ScheduleInv

\* Once the controller has caught up, every job of the spec that can run is scheduled as
\* the spec has it (controller.go:91-205, cronmanager.go:49-90).
THEOREM Scheduled ==
    ASSUME Circumstances
    PROVE  Spec => []SpecScheduled
<1>1. Typed /\ StatusInv /\ ScheduleInv => SpecScheduled
  <2> SUFFICES ASSUME Typed, StatusInv, ScheduleInv, Settled, obj.there,
                      NEW j \in obj.jobs, j.plan \in GoodPlans, ~j.once
               PROVE  \E i \in DOMAIN engine : engine[i].work = [job |-> j, params |-> obj.params]
      BY DEF SpecScheduled
  <2>1. PICK i \in DOMAIN queue : queue[i].work = Work(j, obj.params)
        BY DEF Settled, ScheduleInv, RestQueued, AtRest, Scheduling, Queued
  <2>2. pc[R] = "idle"
        BY DEF Settled, StatusInv, WorkInv
  <2> QED BY <2>1, <2>2 DEF ScheduleInv, TableInv, Work
<1> QED BY <1>1, AlwaysStatus, ScheduleInit, ScheduleStep, PTL DEF Spec

-------------------------------------------------------------------------------
\* The conditions and the jobs they name.

\* What condition c names is in the manager, if it can be, and has these parameters.
Placed(c, params) ==
    /\ Scheduling(c.job) => c.id \in DOMAIN queue
    /\ c.id \in DOMAIN queue => queue[c.id].work.params = params

\* A condition is left until its job is called, under its identifier; and the jobs
\* handled have been placed, but for those that are done.
PlaceInv ==
    rec.active =>
        /\ pc[R] \in CallPCs =>
              LET j == arg[R].work.job
              IN  j \notin rec.jobs /\ (KeptOf(j) # {} => \E c \in KeptOf(j) : c.id = arg[R].id)
        /\ \A c \in rec.kept : c.job \in rec.jobs \/ Calling(c.job) => c \in rec.inst.conds
        /\ \A c \in rec.inst.conds :
              c.job \notin rec.jobs /\ ~Calling(c.job) =>
                  Placed(c, rec.inst.params) \/ Deleting(c.id)

RestPlaced ==
    Budget["errors"] = 0 /\ AtRest /\ obj.there => \A c \in obj.conds : Placed(c, obj.params)

\* Without passes the engine has nothing that the queue has not.
EngineInv ==
    Passes = {} =>
        /\ \A i \in DOMAIN engine : i \in DOMAIN queue \/ (pc[R] = "c_store" /\ arg[R].id = i)
        /\ pc[R] = "d_drop" => arg[R].id \notin DOMAIN engine

GoneInv == ~obj.there => obj.jobs = {}

\* Steps of others than the worker.
LEMMA PlacesStay ==
    ASSUME PlaceInv, UNCHANGED queue, pc'[R] = pc[R], arg'[R] = arg[R],
           rec'.active => /\ rec.active /\ rec'.inst = rec.inst /\ rec'.kept = rec.kept
                          /\ rec'.dels = rec.dels /\ rec'.jobs = rec.jobs
    PROVE  PlaceInv'
BY DEF PlaceInv, Calling, Deleting, Placed, KeptOf

\* Of the jobs handled only those that are done are deleted.
LEMMA DeletedIsOnce ==
    ASSUME StatusInv, CallInv, rec.active, NEW c \in rec.inst.conds, c.job \notin rec.jobs,
           Deleting(c.id)
    PROVE  c.job.once
<1>1. c.job \in rec.inst.jobs
      BY DEF StatusInv, InstInv
<1>2. Names(c.id, c.job)
      BY DEF Names, Listed
<1> QED BY <1>1, <1>2 DEF CallInv

LEMMA ReadPlaces == Typed /\ StatusInv /\ Read => PlaceInv'
<1> SUFFICES ASSUME Typed, StatusInv, Read PROVE PlaceInv'
    OBVIOUS
<1>1. /\ rec'.inst = [cache EXCEPT !.sparams = cache.params, !.conds = rec'.kept]
      /\ rec'.jobs = cache.jobs /\ pc'[R] = "idle"
      /\ \A c \in rec'.kept : c.job \in cache.jobs
      BY DEF Read, Resting, managerVars, StatusInv, WorkInv, Popped, Unchanged
<1>2. rec'.inst.conds = rec'.kept
      BY <1>1 DEF Typed, CopyInv, Shapes, Absent
<1> QED BY <1>1, <1>2 DEF PlaceInv, CallPCs

LEMMA DeletePlaces ==
    ASSUME Typed, StatusInv, CallInv, PlaceInv, NEW id \in AllIds, DeleteOne(id)
    PROVE  PlaceInv'
<1>1. /\ rec.active /\ pc[R] = "idle" /\ id \in rec.dels
      /\ rec'.dels = rec.dels \ {id} /\ rec'.jobs = rec.jobs /\ rec'.inst = rec.inst
      /\ rec'.kept = rec.kept
      BY RecFields DEF DeleteOne, Typed, CopyInv, Fields
<1>2. /\ queue' = queue
      /\ \/ pc'[R] = "d_remove" /\ arg'[R].id = id
         \/ pc'[R] = "idle" /\ id \notin DOMAIN queue
      BY <1>1, ManagerShapes DEF DeleteOne, M!CallDelete, M!Goto, managerVars
<1>3. \A i \in DOMAIN queue : Deleting(i) => Deleting(i)'
      BY <1>1, <1>2 DEF Deleting
<1>4. ASSUME NEW c \in rec.inst.conds, c.job \notin rec.jobs
      PROVE  Placed(c, rec.inst.params)' \/ Deleting(c.id)'
  <2>1. Placed(c, rec.inst.params) \/ Deleting(c.id)
        BY <1>1, <1>4 DEF PlaceInv, Calling, CallPCs
  <2>2. Deleting(c.id) => ~Scheduling(c.job)
        BY <1>1, <1>4, DeletedIsOnce DEF Scheduling
  <2> QED BY <1>1, <1>2, <1>3, <2>1, <2>2 DEF Placed
<1>5. pc'[R] \notin CallPCs /\ pc[R] \notin CallPCs
      BY <1>1, <1>2 DEF CallPCs
<1> QED BY <1>1, <1>4, <1>5 DEF PlaceInv, Calling, KeptOf

LEMMA DonePlaces ==
    ASSUME Typed, StatusInv, SpecsInv, Circumstances, PlaceInv, NEW j, JobDone(j)
    PROVE  PlaceInv'
<1>1. PICK c \in KeptOf(j) : j.once /\ rec' = [Taken(j) EXCEPT !.dels = {c.id}]
      BY DEF JobDone
<1>2. /\ rec.active /\ pc[R] = "idle" /\ rec.dels = {} /\ UNCHANGED <<queue, pc, arg>>
      /\ j \in rec.jobs /\ j \in rec.inst.jobs
      BY DEF JobDone, HandleJob, managerVars, Typed, CTypes, RecTypes
<1>3. /\ rec'.dels = {c.id} /\ rec'.jobs = rec.jobs \ {j} /\ rec'.inst = rec.inst
      /\ rec'.kept = rec.kept
  <2>1. /\ DOMAIN Taken(j) = Fields /\ Taken(j).inst = rec.inst /\ Taken(j).kept = rec.kept
        /\ Taken(j).jobs = rec.jobs \ {j}
        BY TakenFields DEF Typed, CopyInv
  <2> QED BY <1>1, <2>1 DEF Fields
<1>4. c.job = j /\ c \in rec.inst.conds
  <2>1. c.job = j
        BY <1>2, KeptJob DEF SpecsInv, Circumstances
  <2> QED BY <1>2, <2>1 DEF KeptOf, PlaceInv
<1>5. ASSUME NEW d \in rec.inst.conds, d.job \notin rec'.jobs
      PROVE  Placed(d, rec.inst.params)' \/ Deleting(d.id)'
  <2>1. CASE d.job = j
    <3>1. d = c
          BY <1>4, <2>1 DEF StatusInv, NamesInv, Named
    <3> QED BY <1>3, <3>1 DEF Deleting
  <2>2. CASE d.job # j
    <3>1. Placed(d, rec.inst.params)
          BY <1>2, <1>3, <1>5, <2>2 DEF PlaceInv, Calling, CallPCs, Deleting
    <3> QED BY <1>2, <1>3, <3>1 DEF Placed
  <2> QED BY <2>1, <2>2
<1>6. pc'[R] \notin CallPCs /\ pc[R] \notin CallPCs
      BY <1>2 DEF CallPCs
<1> QED BY <1>2, <1>3, <1>5, <1>6 DEF PlaceInv, Calling

LEMMA CreatePlaces ==
    ASSUME Typed, PlaceInv, NEW j, JobCreate(j)
    PROVE  PlaceInv'
<1>1. /\ rec.active /\ pc[R] = "idle" /\ rec.dels = {}
      BY DEF JobCreate, HandleJob
<1>2. /\ rec'.jobs = rec.jobs \ {j} /\ rec'.inst = rec.inst /\ rec'.kept = rec.kept
  <2>1. /\ Taken(j).inst = rec.inst /\ Taken(j).kept = rec.kept
        /\ Taken(j).jobs = rec.jobs \ {j}
        BY TakenFields DEF Typed, CopyInv
  <2> QED BY <2>1 DEF JobCreate
<1>3. PICK id \in AllIds :
        /\ KeptOf(j) # {} => \E c \in KeptOf(j) : c.id = id
        /\ M!CreateLoad([id |-> id, work |-> [job |-> j, params |-> rec.inst.params]])
      BY DEF JobCreate
<1>4. /\ queue' = queue /\ pc'[R] \in CallPCs
      /\ arg'[R].work.job = j /\ arg'[R].id = id
      BY <1>3, ManagerShapes DEF M!CreateLoad, M!Goto, CallPCs
<1>5. \A k : Calling(k)' <=> k = j
      BY <1>4 DEF Calling
<1>6. \A d \in rec.inst.conds :
        d.job \notin rec.jobs => Placed(d, rec.inst.params)
      BY <1>1 DEF PlaceInv, Calling, CallPCs, Deleting
<1>7. \A d \in rec.inst.conds :
        d.job \notin rec'.jobs /\ d.job # j => Placed(d, rec.inst.params)'
      BY <1>2, <1>4, <1>6 DEF Placed
<1>8. \A k : KeptOf(k)' = KeptOf(k)
      BY <1>2 DEF KeptOf
<1>9. \A d \in rec.kept : d.job \in rec.jobs => d \in rec.inst.conds
      BY <1>1 DEF PlaceInv
<1>10. HandleJob(j)
       BY DEF JobCreate
<1> QED BY <1>2, <1>3, <1>4, <1>5, <1>7, <1>8, <1>9, <1>10 DEF PlaceInv, HandleJob

\* The end of a call: the condition of its job has been placed.
LEMMA PlaceEnds ==
    ASSUME Typed, SpecsInv, StatusInv, Circumstances, CallInv, PlaceInv, rec.active,
           pc[R] \in CallPCs, pc'[R] = "idle",
           /\ rec'.jobs = rec.jobs /\ rec'.kept = rec.kept
           /\ rec'.inst.jobs = rec.inst.jobs /\ rec'.inst.params = rec.inst.params,
           \A c \in rec.inst.conds \ rec'.inst.conds : c.job.name = arg[R].work.job.name,
           \A c \in rec'.inst.conds :
               c.job = arg[R].work.job \/ (c \in rec.inst.conds /\ Placed(c, rec.inst.params)) =>
                   Placed(c, rec.inst.params)',
           \A c \in rec'.inst.conds : c \in rec.inst.conds \/ c.job = arg[R].work.job
    PROVE  PlaceInv'
<1> DEFINE j == arg[R].work.job
<1>1. j \notin rec.jobs /\ j \in rec.inst.jobs
      BY DEF PlaceInv, StatusInv, WorkInv
<1>2. \A k : Calling(k) <=> k = j
      BY DEF Calling
<1>3. \A k : ~Calling(k)'
      BY DEF Calling, CallPCs
<1>4. \A c \in rec.inst.conds : ~Deleting(c.id)
      BY DEF CallInv, Deleting, CallPCs
<1>5. ASSUME NEW c \in rec.kept, c.job \in rec.jobs
      PROVE  c \in rec'.inst.conds
  <2>1. c \in rec.inst.conds /\ c.job \in rec.inst.jobs
        BY <1>5 DEF PlaceInv, StatusInv, InstInv
  <2>2. Distinct(rec.inst.jobs)
        BY DEF SpecsInv, ListsInv, Circumstances, DistinctNames
  <2>3. c.job.name # j.name
        BY <1>1, <1>5, <2>1, <2>2 DEF Distinct
  <2> QED BY <2>1, <2>3
<1>6. ASSUME NEW c \in rec'.inst.conds, c.job \notin rec.jobs
      PROVE  Placed(c, rec.inst.params)'
      BY <1>2, <1>4, <1>6 DEF PlaceInv
<1> HIDE DEF j
<1> QED BY <1>3, <1>5, <1>6 DEF PlaceInv, CallPCs, Placed

LEMMA SubmitPlaces ==
    ASSUME Typed, StatusInv, OneJobPerId, SpecsInv, Circumstances, CallInv, PlaceInv, Submit
    PROVE  PlaceInv'
<1> DEFINE j == arg[R]
<1>1. pc[R] \in {"c_store", "u_store"} /\ rec.active
      BY DEF Submit, StatusInv, WorkInv
<1>2. j \in Held /\ j.work.params = rec.inst.params
      BY <1>1, ManagerShapes DEF CallInv, CallPCs
<1>3. pc'[R] = "idle" /\ queue' = M!Table!Scheduled(queue, j)
      BY ManagerShapes DEF Submit, M!CreateStore, M!UpdateStore, M!Store, M!Return, M!Goto
<1>4. /\ DOMAIN queue' = DOMAIN queue \cup {j.id} /\ queue'[j.id] = j
      /\ \A i \in DOMAIN queue \ {j.id} : queue'[i] = queue[i]
      BY <1>3 DEF M!Table!Scheduled
<1>5. PICK state : rec' = Recorded(rec, j.work.job, j.id, state)
      BY DEF Submit, Record
<1>6. /\ rec'.jobs = rec.jobs /\ rec'.kept = rec.kept
      /\ rec'.inst.jobs = rec.inst.jobs /\ rec'.inst.params = rec.inst.params
      /\ rec'.inst.conds = {c \in rec.inst.conds : c.job.name # j.work.job.name}
                           \cup {[job |-> j.work.job, id |-> j.id, state |-> state]}
      BY <1>5, RecordedFields
<1>7. ASSUME NEW c \in rec'.inst.conds, c.job = j.work.job
      PROVE  Placed(c, rec.inst.params)'
  <2>1. c.id = j.id
        BY <1>6, <1>7
  <2> QED BY <1>2, <1>4, <1>6, <2>1 DEF Placed
<1>8. ASSUME NEW c \in rec.inst.conds, c \in rec'.inst.conds, c.job # j.work.job,
             Placed(c, rec.inst.params)
      PROVE  Placed(c, rec.inst.params)'
  <2>1. Names(c.id, c.job) /\ Names(j.id, j.work.job)
        BY <1>2 DEF Names, Listed
  <2>2. c.id # j.id
        BY <1>8, <2>1 DEF OneJobPerId
  <2> QED BY <1>4, <1>6, <1>8, <2>2 DEF Placed
<1>9. /\ \A c \in rec.inst.conds \ rec'.inst.conds : c.job.name = j.work.job.name
      /\ \A c \in rec'.inst.conds : c \in rec.inst.conds \/ c.job = j.work.job
      BY <1>6
<1>10. pc[R] \in CallPCs
       BY <1>1 DEF CallPCs
<1> QED BY <1>1, <1>3, <1>6, <1>7, <1>8, <1>9, <1>10, PlaceEnds

\* The worker goes on within a call.
LEMMA PlaceGoesOn ==
    ASSUME PlaceInv, UNCHANGED <<rec, queue>>, arg'[R] = arg[R],
           \/ pc[R] \in CallPCs /\ pc'[R] \in CallPCs
           \/ pc[R] = "d_remove" /\ pc'[R] = "d_drop"
    PROVE  PlaceInv'
<1>1. \A i : Deleting(i) => Deleting(i)'
      BY DEF Deleting, CallPCs
<1>2. \A k : Calling(k) <=> Calling(k)'
      BY DEF Calling, CallPCs
<1> QED BY <1>1, <1>2 DEF PlaceInv, CallPCs, Placed, KeptOf

LEMMA RefusePlaces ==
    ASSUME Typed, StatusInv, OneJobPerId, SpecsInv, Circumstances, TableInv, CallInv, PlaceInv,
           Refuse
    PROVE  PlaceInv'
<1> DEFINE j == arg[R]
<1>1. /\ pc[R] \in {"c_add", "u_add"} /\ rec.active /\ queue' = queue
      /\ j.work \in Works /\ j \in Held
      BY ManagerShapes DEF Refuse, M!CreateAdd, M!UpdateAdd, StatusInv, WorkInv, M!Jobs
<1>2. CASE j.work.job.plan \in GoodPlans
  <2>1. arg'[R] = arg[R] /\ pc'[R] \in {"c_store", "u_store"} /\ rec' = rec
        BY <1>1, <1>2, ManagerShapes DEF Refuse, M!CreateAdd, M!UpdateAdd, M!ContinueIf, M!Goto
  <2> QED BY <1>1, <2>1, PlaceGoesOn DEF CallPCs
<1>3. CASE j.work.job.plan \notin GoodPlans
  <2>1. pc'[R] = "idle" /\ rec' = Recorded(rec, j.work.job, j.id, "Failed")
        BY <1>1, <1>3, ManagerShapes DEF Refuse, Record, M!CreateAdd, M!UpdateAdd, M!ContinueIf,
           M!Return, M!Goto
  <2>2. /\ rec'.jobs = rec.jobs /\ rec'.kept = rec.kept
        /\ rec'.inst.jobs = rec.inst.jobs /\ rec'.inst.params = rec.inst.params
        /\ rec'.inst.conds = {c \in rec.inst.conds : c.job.name # j.work.job.name}
                             \cup {[job |-> j.work.job, id |-> j.id, state |-> "Failed"]}
        BY <2>1, RecordedFields
  <2>3. j.id \notin DOMAIN queue
    <3> SUFFICES ASSUME j.id \in DOMAIN queue PROVE FALSE
        OBVIOUS
    <3>1. queue[j.id].work.job = j.work.job
          BY <1>1, ManagerShapes, SameJob
    <3> QED BY <1>3, <3>1 DEF TableInv
  <2>4. ASSUME NEW c \in rec'.inst.conds, c.job = j.work.job
        PROVE  Placed(c, rec.inst.params)'
    <3>1. c.id = j.id
          BY <2>2, <2>4
    <3> QED BY <1>1, <1>3, <2>3, <2>4, <3>1 DEF Placed, Scheduling
  <2>5. \A c \in rec.inst.conds : Placed(c, rec.inst.params) => Placed(c, rec.inst.params)'
        BY <1>1, <2>2 DEF Placed
  <2>6. /\ \A c \in rec.inst.conds \ rec'.inst.conds : c.job.name = j.work.job.name
        /\ \A c \in rec'.inst.conds : c \in rec.inst.conds \/ c.job = j.work.job
        BY <2>2
  <2>7. pc[R] \in CallPCs
        BY <1>1 DEF CallPCs
  <2> QED BY <1>1, <2>1, <2>2, <2>4, <2>5, <2>6, <2>7, PlaceEnds
<1> QED BY <1>2, <1>3

\* What needs no update has its condition left.
LEMMA ComparePlaces ==
    ASSUME Typed, StatusInv, SpecsInv, Circumstances, OneJobPerId, TableInv, CallInv, PlaceInv,
           Compare
    PROVE  PlaceInv'
<1> DEFINE j == arg[R]
<1>1. pc[R] = "c_again" /\ rec.active /\ queue' = queue /\ j.id \in DOMAIN queue /\ rec' = rec
      BY DEF Compare, M!CreateAgain, StatusInv, WorkInv, TableInv
<1>2. j.work \in Works /\ queue[j.id].work \in Works /\ pc[R] \in CallPCs
      BY <1>1, ManagerShapes DEF M!Jobs, CallPCs
<1>3. CASE pc'[R] = "u_remove" /\ arg'[R] = arg[R]
      BY <1>1, <1>3, PlaceGoesOn DEF CallPCs
<1>4. CASE ~(pc'[R] = "u_remove" /\ arg'[R] = arg[R])
  <2>1. pc'[R] = "idle" /\ M!Equals(queue[j.id], j)
        BY <1>1, <1>4, ManagerShapes DEF Compare, M!CreateAgain, M!ContinueIf, M!Return, M!Goto
  <2>2. RefOf[queue[j.id].work.params] = RefOf[j.work.params]
        BY <1>2, <2>1 DEF M!Equals
  <2>3. queue[j.id].work.params = rec.inst.params
        BY <1>1, <1>2, <2>2 DEF Circumstances, Works, CallInv
  <2>4. PICK c \in KeptOf(j.work.job) : c.id = j.id
        BY <1>1, <1>2 DEF StatusInv, WorkInv, PlaceInv
  <2>5. c.job = j.work.job
        BY <1>1, <1>2, KeptJob DEF StatusInv, WorkInv, SpecsInv, Circumstances
  <2>6. c \in rec.inst.conds
        BY <1>1, <1>2, <2>5 DEF KeptOf, PlaceInv, Calling
  <2>7. ASSUME NEW d \in rec.inst.conds, d.job = j.work.job
        PROVE  Placed(d, rec.inst.params)'
    <3>1. d.id = j.id
          BY <2>4, <2>5, <2>6, <2>7 DEF StatusInv, NamesInv, Named
    <3> QED BY <1>1, <2>3, <3>1 DEF Placed
  <2>8. \A d \in rec.inst.conds : Placed(d, rec.inst.params) => Placed(d, rec.inst.params)'
        BY <1>1 DEF Placed
  <2> HIDE DEF j
  <2>9. \A d \in rec'.inst.conds : d \in rec.inst.conds
        BY <1>1
  <2> QED BY <1>1, <1>2, <2>1, <2>7, <2>8, <2>9, PlaceEnds DEF j
<1> QED BY <1>3, <1>4

\* The job dropped is none of those placed.
LEMMA DropPlaces ==
    ASSUME Typed, StatusInv, CallInv, PlaceInv, M!DeleteDrop(R), rec' = rec
    PROVE  PlaceInv'
<1> DEFINE id == arg[R].id
<1>1. /\ pc[R] = "d_drop" /\ pc'[R] = "idle" /\ queue' = M!Table!Unscheduled(queue, id)
      /\ rec.active
      BY ManagerShapes DEF M!DeleteDrop, M!Return, M!Goto, StatusInv, WorkInv
<1>2. /\ DOMAIN queue' = DOMAIN queue \ {id}
      /\ \A i \in DOMAIN queue \ {id} : queue'[i] = queue[i]
      BY <1>1 DEF M!Table!Unscheduled
<1>3. \A i : Deleting(i) => i = id \/ Deleting(i)'
      BY <1>1 DEF Deleting
<1>4. Deleting(id)
      BY <1>1 DEF Deleting
<1> HIDE DEF id
<1>5. ASSUME NEW c \in rec.inst.conds, c.job \notin rec.jobs
      PROVE  Placed(c, rec.inst.params)' \/ Deleting(c.id)'
  <2>1. Placed(c, rec.inst.params) \/ Deleting(c.id)
        BY <1>1, <1>5 DEF PlaceInv, Calling, CallPCs
  <2>2. Deleting(c.id) => ~Scheduling(c.job)
        BY <1>1, <1>5, DeletedIsOnce DEF Scheduling
  <2> QED BY <1>2, <1>3, <1>4, <2>1, <2>2 DEF Placed
<1>6. pc'[R] \notin CallPCs /\ pc[R] \notin CallPCs
      BY <1>1 DEF CallPCs
<1> QED BY <1>1, <1>5, <1>6 DEF PlaceInv, Calling, KeptOf

LEMMA PlaceStep ==
    ASSUME Typed, StatusInv, ScheduleInv, Circumstances, PlaceInv, [Next]_vars
    PROVE  PlaceInv'
<1> USE DEF ScheduleInv
<1>1. CASE Skip \/ Update \/ Conflict \/ UpdateFails \/ Crash
      BY <1>1, RestingNames DEF Skip, Update, Conflict, UpdateFails, Crash, PlaceInv
<1>2. CASE \/ Sync \/ Resync \/ UNCHANGED vars
           \/ \E id \in AllIds : Fire(id) \/ HandleResult(id) \/ PatchLost(id)
  <2>1. UNCHANGED <<rec, queue, pc, arg>>
        BY <1>2 DEF Sync, Resync, vars, managerVars, Fire, HandleResult, PatchLost
  <2> QED BY <2>1, PlacesStay
<1>3. ASSUME NEW o, Versioned(o), UNCHANGED managerVars
      PROVE  PlaceInv'
  <2>1. /\ rec'.active = rec.active /\ rec'.dels = rec.dels /\ rec'.jobs = rec.jobs
        /\ rec'.inst = rec.inst /\ rec'.kept = rec.kept
        BY <1>3, RecFields DEF Versioned, Typed, CopyInv, Fields
  <2> QED BY <1>3, <2>1, PlacesStay DEF managerVars
<1>4. CASE User \/ \E id \in AllIds : Patch(id)
      BY <1>3, <1>4 DEF User, UserEdit, UserDelete, UserCreate, Patch
<1>5. CASE ReadGone \/ \E p \in Passes : Tick(p) \/ GarbageCollect(p)
  <2>1. rec' = rec /\ \E p \in Passes : M!GCStart(p) \/ M!Collect(p)
        BY <1>5 DEF ReadGone, Tick, GarbageCollect, objectVars, PassInv, M!DeleteRemove, M!DeleteDrop
  <2> QED BY <2>1, PassSteps, PlacesStay
<1>6. CASE ManagerStep
  <2>1. CASE M!DeleteDrop(R)
        BY <1>6, <2>1, DropPlaces DEF ManagerStep
  <2>2. CASE ~M!DeleteDrop(R)
    <3>1. /\ UNCHANGED <<rec, queue>> /\ arg'[R] = arg[R]
          /\ \/ pc[R] = "u_remove" /\ pc'[R] = "u_add"
             \/ pc[R] = "d_remove" /\ pc'[R] = "d_drop"
          BY <1>6, <2>2, ManagerShapes DEF ManagerStep, M!UpdateRemove, M!DeleteRemove, M!Goto
    <3> QED BY <3>1, PlaceGoesOn DEF CallPCs
  <2> QED BY <2>1, <2>2
<1>7. CASE \E j \in JobSpecs : JobInvalid(j) \/ JobDone(j) \/ JobCreate(j)
      BY <1>7, AllValid, DonePlaces, CreatePlaces
<1>8. CASE Reconcile
      BY <1>1, <1>5, <1>6, <1>7, <1>8, ReadPlaces, DeletePlaces, SubmitPlaces, RefusePlaces,
         ComparePlaces DEF Reconcile
<1> QED BY <1>1, <1>2, <1>4, <1>5, <1>8 DEF Next, Result

LEMMA EndPlaces ==
    ASSUME Typed, StatusInv, PlaceInv, Skip \/ Update \/ Conflict \/ UpdateFails
    PROVE  RestPlaced'
<1>1. /\ rec.active /\ pc[R] = "idle" /\ rec.dels = {} /\ rec.jobs = {}
      /\ queue' = queue /\ due' = due
      BY DEF Skip, Update, Conflict, UpdateFails, Handled, managerVars, reconcileVars
<1>2. \A c \in rec.inst.conds : Placed(c, rec.inst.params)
      BY <1>1 DEF PlaceInv, Calling, CallPCs, Deleting
<1>3. CASE rec.stale
  <2>1. UNCHANGED <<obj, cstale>>
        BY <1>3 DEF Skip, Update, Conflict, UpdateFails, reconcileVars
  <2> QED BY <1>1, <1>3, <2>1 DEF StatusInv, InstInv, RestPlaced, AtRest
<1>4. CASE ~rec.stale /\ Update
  <2>1. obj' = rec.inst
        BY <1>4 DEF Update
  <2> QED BY <1>1, <1>2, <2>1 DEF RestPlaced, Placed
<1>5. CASE ~rec.stale /\ (Skip \/ Conflict)
  <2>1. Skip /\ obj' = obj
        BY <1>5 DEF Skip, Conflict, reconcileVars
  <2>2. obj.conds = rec.inst.conds /\ obj.params = rec.inst.params
        BY <1>1, <1>5, <2>1 DEF Skip, NoUpdate, StatusInv, InstInv, Typed, CopyInv, Same
  <2> QED BY <1>1, <1>2, <2>1, <2>2 DEF RestPlaced, Placed
<1>6. CASE UpdateFails
  <2>1. budget["errors"] > 0 /\ Spent
        BY <1>6 DEF UpdateFails, Typed
  <2>2. Budget["errors"] # 0
        BY <2>1, HPAAssumption DEF Spent
  <2> QED BY <2>2 DEF RestPlaced
<1> QED BY <1>3, <1>4, <1>5, <1>6

LEMMA RestPlacedStep ==
    ASSUME Typed, StatusInv, ScheduleInv, PlaceInv, RestPlaced, [Next]_vars
    PROVE  RestPlaced'
<1>1. CASE rec'.active \/ cstale' \/ due' \/ ~obj'.there
      BY <1>1 DEF RestPlaced, AtRest
<1>2. CASE UNCHANGED <<obj, queue, rec, cstale, due>>
      BY <1>2 DEF RestPlaced, AtRest, Placed
<1> QED BY <1>1, <1>2, RestMoves, EndPlaces DEF ScheduleInv

LEMMA EngineStep ==
    ASSUME Typed, StatusInv, ScheduleInv, Circumstances, EngineInv, [Next]_vars
    PROVE  EngineInv'
<1> SUFFICES ASSUME Passes = {} PROVE EngineInv'
    BY DEF EngineInv
<1> USE DEF ScheduleInv
<1> DEFINE j == arg[R]
<1>1. CASE UNCHANGED managerVars
      BY <1>1 DEF managerVars, EngineInv
<1>2. CASE M!Restart
      BY <1>2 DEF M!Restart, EngineInv, M!Threads
<1>3. CASE \/ \E id \in AllIds, work \in Works : M!CreateLoad([id |-> id, work |-> work])
           \/ \E id \in AllIds : M!CallDelete(id)
  <2>1. /\ pc[R] = "idle" /\ UNCHANGED <<queue, engine>>
        /\ pc'[R] \in {"c_again", "c_add", "d_remove"}
        BY <1>3, ManagerShapes DEF M!CreateLoad, M!CallDelete, M!Goto
  <2> QED BY <2>1 DEF EngineInv
<1>4. CASE M!CreateAdd \/ M!UpdateAdd
  <2>1. /\ pc[R] \in {"c_add", "u_add"} /\ queue' = queue
        /\ pc[R] = "u_add" => j.id \in DOMAIN queue
        BY <1>4 DEF M!CreateAdd, M!UpdateAdd, TableInv
  <2>2. \/ /\ engine' = M!Table!Scheduled(engine, j) /\ arg' = arg
           /\ pc'[R] = IF pc[R] = "c_add" THEN "c_store" ELSE "u_store"
        \/ engine' = engine /\ pc'[R] = "idle"
        BY <1>4, ManagerShapes DEF M!CreateAdd, M!UpdateAdd, M!AddJob, M!ContinueIf, M!Return, M!Goto
  <2> QED BY <2>1, <2>2 DEF EngineInv, M!Table!Scheduled
<1>5. CASE M!CreateStore \/ M!UpdateStore
  <2>1. /\ pc[R] \in {"c_store", "u_store"} /\ engine' = engine /\ pc'[R] = "idle"
        /\ queue' = M!Table!Scheduled(queue, j)
        BY <1>5, ManagerShapes DEF M!CreateStore, M!UpdateStore, M!Store, M!Return, M!Goto
  <2> QED BY <2>1 DEF EngineInv, M!Table!Scheduled
<1>6. CASE M!CreateAgain
  <2>1. /\ pc[R] = "c_again" /\ UNCHANGED <<queue, engine>> /\ pc'[R] \in {"idle", "u_remove"}
        BY <1>6, ManagerShapes DEF M!CreateAgain, M!ContinueIf, M!Return, M!Goto
  <2> QED BY <2>1 DEF EngineInv
<1>7. CASE M!UpdateRemove \/ M!DeleteRemove(R)
  <2>1. /\ pc[R] \in {"u_remove", "d_remove"} /\ UNCHANGED <<queue, arg>>
        /\ pc'[R] \in {"u_add", "d_drop"}
        /\ engine' = M!Table!Unscheduled(engine, j.id)
        BY <1>7, ManagerShapes DEF M!UpdateRemove, M!DeleteRemove, M!RemoveJob, M!Goto
  <2>2. DOMAIN engine' = DOMAIN engine \ {j.id}
        BY <2>1 DEF M!Table!Unscheduled
  <2> QED BY <2>1, <2>2 DEF EngineInv
<1>8. CASE M!DeleteDrop(R)
  <2>1. /\ pc[R] = "d_drop" /\ pc'[R] = "idle" /\ engine' = engine
        /\ queue' = M!Table!Unscheduled(queue, j.id)
        BY <1>8, ManagerShapes DEF M!DeleteDrop, M!Return, M!Goto
  <2>2. DOMAIN queue' = DOMAIN queue \ {j.id}
        BY <2>1 DEF M!Table!Unscheduled
  <2> QED BY <2>1, <2>2 DEF EngineInv
<1> HIDE DEF ScheduleInv
<1> QED BY <1>1, <1>2, <1>3, <1>4, <1>5, <1>6, <1>7, <1>8, ManagerMoves DEF M!Create, ScheduleInv

LEMMA GoneStep ==
    ASSUME Typed, StatusInv, GoneInv, [Next]_vars
    PROVE  GoneInv'
<1>1. CASE obj' = obj \/ obj'.there
      BY <1>1 DEF GoneInv
<1>2. Shapes
      BY DEF Typed, CopyInv
<1>3. CASE User
  <2>1. ASSUME NEW jobs, NEW params, UserEdit(jobs, params) PROVE obj'.there
        BY <1>2, <2>1 DEF UserEdit, Versioned, Shapes, Absent
  <2>2. ASSUME NEW jobs, NEW params, UserCreate(jobs, params) PROVE obj'.there
        BY <2>2 DEF UserCreate, Versioned, Created, Absent
  <2>3. UserDelete => GoneInv'
        BY DEF UserDelete, Versioned, Absent, GoneInv
  <2> QED BY <1>1, <1>3, <2>1, <2>2, <2>3 DEF User
<1>4. ASSUME NEW id, Patch(id) PROVE obj'.there
      BY <1>2, <1>4 DEF Patch, Versioned, Shapes, Absent
<1>5. CASE Update
  <2>1. obj'.there
        BY <1>5 DEF Update, Handled, StatusInv, InstInv
  <2> QED BY <1>1, <2>1
<1>6. CASE ~User /\ ~Update /\ ~\E id \in AllIds : Patch(id)
  <2>1. obj' = obj
        BY <1>6 DEF Next, vars, Sync, Resync, UpdateFails, Reconcile, Read, ReadGone, DeleteOne,
           JobInvalid, JobDone, JobCreate, Submit, Refuse, Compare, ManagerStep, Skip, Conflict,
           reconcileVars, Fire, Result, HandleResult, PatchLost, Tick, GarbageCollect, objectVars,
           Crash
  <2> QED BY <1>1, <2>1
<1> QED BY <1>1, <1>3, <1>4, <1>5, <1>6

NamedInv == PlaceInv /\ RestPlaced /\ EngineInv /\ GoneInv

LEMMA AlwaysNamed ==
    ASSUME Circumstances
    PROVE  Spec => [](Typed /\ StatusInv /\ ScheduleInv /\ NamedInv)
<1>1. Init => NamedInv
  <2> SUFFICES ASSUME Init PROVE NamedInv
      OBVIOUS
  <2>1. obj.conds = {} /\ obj.there /\ ~rec.active
        BY RestingNames DEF Init, Created, Absent
  <2>2. DOMAIN engine = {} /\ pc[R] = "idle"
        BY DEF Init, M!Init, M!Threads
  <2> QED BY <2>1, <2>2 DEF NamedInv, PlaceInv, RestPlaced, EngineInv, GoneInv
<1>2. Typed /\ StatusInv /\ ScheduleInv /\ NamedInv /\ [Next]_vars => NamedInv'
      BY PlaceStep, RestPlacedStep, EngineStep, GoneStep DEF NamedInv
<1> QED BY <1>1, <1>2, AlwaysStatus, ScheduleInit, ScheduleStep, PTL DEF Spec

\* While Updates fail but by conflicts: once the controller has caught up, the jobs
\* that the status names are in the engine (controller.go:168-184).
THEOREM NamedScheduled ==
    ASSUME Circumstances, Budget["errors"] = 0
    PROVE  Spec => []NamedIsScheduled
<1>1. Typed /\ StatusInv /\ ScheduleInv /\ NamedInv => NamedIsScheduled
  <2> SUFFICES ASSUME Typed, StatusInv, ScheduleInv, NamedInv, Settled,
                      NEW c \in obj.conds, c.job \in obj.jobs, ~c.job.once,
                      c.job.plan \in GoodPlans
               PROVE  c.id \in DOMAIN engine
      BY DEF NamedIsScheduled
  <2>1. obj.there /\ AtRest /\ pc[R] = "idle"
        BY DEF NamedInv, GoneInv, Settled, AtRest, StatusInv, WorkInv
  <2>2. c.id \in DOMAIN queue
        BY <2>1 DEF NamedInv, RestPlaced, Placed, Scheduling
  <2> QED BY <2>1, <2>2 DEF ScheduleInv, TableInv
<1> QED BY <1>1, AlwaysNamed, PTL

\* And they run with the target and the exclude dates of the spec (controller.go:229).
THEOREM Recreated ==
    ASSUME Circumstances, Budget["errors"] = 0
    PROVE  Spec => []RecreatedOnGlobalChange
<1>1. Typed /\ StatusInv /\ ScheduleInv /\ NamedInv => RecreatedOnGlobalChange
  <2> SUFFICES ASSUME Typed, StatusInv, ScheduleInv, NamedInv, Settled, obj.there,
                      NEW c \in obj.conds, c.id \in DOMAIN engine
               PROVE  engine[c.id].work.params = obj.params
      BY DEF RecreatedOnGlobalChange
  <2>1. AtRest /\ pc[R] = "idle"
        BY DEF Settled, AtRest, StatusInv, WorkInv
  <2>2. CASE Passes = {}
    <3>1. c.id \in DOMAIN queue
          BY <2>1, <2>2 DEF NamedInv, EngineInv
    <3>2. engine[c.id].work = queue[c.id].work
          BY <2>1, <3>1 DEF ScheduleInv, TableInv
    <3> QED BY <2>1, <3>1, <3>2 DEF NamedInv, RestPlaced, Placed
  <2>3. CASE Passes # {}
    <3>1. engine[c.id].work.params \in Params
          BY ManagerShapes DEF M!Jobs, Works
    <3> QED BY <2>3, <3>1 DEF Circumstances, ScheduleInv, SpecsInv, ListsInv
  <2> QED BY <2>2, <2>3
<1> QED BY <1>1, AlwaysNamed, PTL
===============================================================================
