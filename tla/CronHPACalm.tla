------------------------------ MODULE CronHPACalm ------------------------------
(***************************************************************************)
(* What holds of CronHPA while the users, the schedules and the resyncs    *)
(* wait for the controller (Calm): whatever is scheduled is named by the   *)
(* status (NoOrphan), run-once jobs run once (RunsOnce), and the engine    *)
(* has the jobs of the spec and no others (SpecScheduled, ExpiredDeleted). *)
(*                                                                         *)
(* Then everybody has a turn: the informer, the worker, the one run or the *)
(* one pass (Turn).  The status covers what the manager tracks, and        *)
(* whoever has the turn keeps it so (Known): what the worker drops from    *)
(* the conditions it deletes from the manager, what the handler of results *)
(* replaces is the run's own condition, and a pass changes what is tracked *)
(* only when there is no status.  What is tracked has then the work that   *)
(* the status or the reconcile in progress says (WorksInv).                *)
(***************************************************************************)
EXTENDS CronHPAScheduled

\* One identifier stands for one job.  The empty one is that of all jobs rejected.
OneJob == OwnRuns /\ \A id, j, k : id # NoId /\ Names(id, j) /\ Names(id, k) => j = k

Idle == \A i \in AllIds : run[i] = NoRun

PassesIdle == \A p \in Passes : pc[p] = "idle"

Turn ==
    /\ cstale => ~due
    /\ cstale \/ due => ~rec.active
    /\ ~rec.stale
    /\ cstale \/ due \/ rec.active => Idle
    /\ cstale \/ due \/ rec.active \/ ~Idle => PassesIdle
    /\ \A i, k \in AllIds : run[i] # NoRun /\ run[k] # NoRun => i = k
    /\ \A p, q \in Passes : pc[p] # "idle" /\ pc[q] # "idle" => p = q
    /\ rec.active \/ ~Idle => obj.there

\* The labels at which a pass has a job in hand.
Handling == {"g_find", "g_get", "g_add", "g_remove", "d_load", "d_remove", "d_drop"}

\* A pass deletes only when the object is gone, and then all there is.
CalmPass ==
    \A p \in Passes :
        /\ pc[p] \in Handling => arg[p].id \in DOMAIN queue
        /\ pc[p] = "g_add" => obj.there
        /\ pc[p] \in {"g_remove", "d_load", "d_remove", "d_drop"} => ~obj.there
        /\ pc[p] # "idle" /\ ~obj.there =>
              \A i \in DOMAIN queue :
                  i \in todo[p] \/ (pc[p] \in Handling /\ arg[p].id = i)

\* The engine has nothing that the queue has not, but for the job being added.
CalmTables ==
    /\ \A i \in DOMAIN engine : i \in DOMAIN queue \/ (pc[R] = "c_store" /\ arg[R].id = i)
    /\ \A t \in M!Threads : pc[t] = "d_drop" => arg[t].id \notin DOMAIN engine
    /\ pc[R] \in {"c_again", "u_remove", "u_add", "u_store"} => arg[R].id \in DOMAIN queue

\* The conditions of jobs that the factory rejects, and only they, have no identifier.
Marks(conds, params) == \A c \in conds : c.id = NoId <=> params \notin ValidParams

NoIds ==
    /\ NoId \notin DOMAIN queue
    /\ pc[R] \in CallPCs => arg[R].id # NoId /\ rec.inst.params \in ValidParams
    /\ Marks(obj.conds, obj.sparams)
    /\ rec.active => Marks(rec.inst.conds, rec.inst.params) /\ Marks(rec.kept, rec.inst.params)
    /\ \A i \in AllIds : Marks(run[i].conds, obj.sparams)

\* Conditions conds name every job that is tracked.
Covers(conds) == \A i \in DOMAIN queue : \E c \in conds : c.id = i

Known ==
    /\ obj.there /\ ~rec.active => Covers(obj.conds)
    /\ rec.active =>
          \A i \in DOMAIN queue : Deleting(i) \/ \E c \in rec.inst.conds : c.id = i
    /\ \A i \in AllIds :
          /\ run[i] # NoRun => i \in DOMAIN queue
          /\ run[i].at = "patching" => Covers(run[i].conds)
    /\ rec.active =>
          \A c \in rec.inst.conds : c.job \in rec.jobs \/ Calling(c.job) => c \in rec.kept
    /\ pc[R] \in CallPCs =>
          /\ arg[R].work.job \notin rec.jobs
          /\ \A c \in KeptOf(arg[R].work.job) : c.id = arg[R].id
    /\ Named(rec.kept)
    /\ ~obj.there /\ ~cstale /\ ~due /\ PassesIdle => DOMAIN queue = {}

TurnsInv == Turn /\ CalmPass /\ CalmTables /\ NoIds /\ Known

CalmInv == ListsInv /\ OneJob /\ TurnsInv

\* The circumstances: what comes from outside waits for the controller, names of jobs
\* are distinct, and Updates do not fail but by conflicts.
Quiet == Calm /\ DistinctNames /\ Budget["errors"] = 0

Before == Typed /\ StatusInv /\ CalmInv

-------------------------------------------------------------------------------
\* Identifiers.

\* A rejected job is named by nothing new but the empty identifier.
LEMMA RejectedNames ==
    ASSUME Typed, OwnRuns, NEW j, JobInvalid(j)
    PROVE  /\ \A id, k : Names(id, k)' => Names(id, k) \/ id = NoId
           /\ OwnRuns'
<1>1. UNCHANGED <<obj, cache, run, managerVars>>
      BY DEF JobInvalid, reconcileVars
<1>2. /\ DOMAIN Taken(j) = Fields /\ Taken(j).inst = rec.inst /\ Taken(j).kept = rec.kept
      /\ DOMAIN rec.inst = DOMAIN Absent
      BY TakenFields DEF Typed, CopyInv, Shapes
<1>3. PICK s : s = Recorded(Taken(j), j, NoId, "Failed")
      OBVIOUS
<1>4. /\ s.kept = rec.kept
      /\ s.inst.conds = {c \in rec.inst.conds : c.job.name # j.name}
                        \cup {[job |-> j, id |-> NoId, state |-> "Failed"]}
      BY ONLY <1>2, <1>3 DEF Recorded, Fields, Absent
<1>5. /\ rec'.kept = rec.kept
      /\ \A c \in rec'.inst.conds : c \in rec.inst.conds \/ c.id = NoId
      BY <1>3, <1>4 DEF JobInvalid
<1>6. Held' = Held /\ Launched' = Launched
      BY <1>1, SameHeld DEF Launched
<1>7. \A c \in Listed' : c \in Listed \/ c.id = NoId
      BY <1>1, <1>5 DEF Listed
<1> QED BY <1>1, <1>6, <1>7 DEF Names, OwnRuns

LEMMA OneJobKept ==
    ASSUME Typed, StatusInv, ListsInv, DistinctNames, OneJob, [Next]_vars
    PROVE  OneJob'
<1>1. OwnRuns
      BY DEF OneJob
<1>2. CASE NamesKept
      BY <1>2 DEF NamesKept, OneJob, OwnRuns
<1>3. CASE \E j, fresh : NamesAdded(fresh, j)
      BY <1>3 DEF NamesAdded, OneJob, OwnRuns
<1>4. CASE \E j \in JobSpecs : JobInvalid(j)
      BY <1>1, <1>4, RejectedNames DEF OneJob
<1> QED BY <1>1, <1>2, <1>3, <1>4, NamesMove

-------------------------------------------------------------------------------
\* Whose step it is.

WorkerStep ==
    \/ \E id \in AllIds : DeleteOne(id)
    \/ \E j \in JobSpecs : JobInvalid(j) \/ JobDone(j) \/ JobCreate(j)
    \/ Submit \/ Refuse \/ Compare \/ ManagerStep

LEMMA Kinds ==
    ASSUME Quiet, Typed, StatusInv, Turn, [Next]_vars
    PROVE  \/ Settled /\ (User \/ Resync \/ (\E id \in AllIds : Fire(id))
                               \/ (\E p \in Passes : Tick(p)) \/ Crash)
           \/ Sync \/ Read \/ ReadGone \/ WorkerStep \/ Skip \/ Update
           \/ \E id \in AllIds : Result(id)
           \/ \E p \in Passes : GarbageCollect(p)
           \/ UNCHANGED vars
<1>1. ~UpdateFails
  <2>1. UpdateFails => budget["errors"] > 0
        BY DEF UpdateFails
  <2>2. budget["errors"] = 0
        BY HPAAssumption DEF Quiet, Typed, Spent
  <2> QED BY <2>1, <2>2
<1>2. ~Conflict
      BY DEF Conflict, Turn
<1>3. User \/ Resync \/ Crash \/ (\E id \in AllIds : Fire(id)) \/ (\E p \in Passes : Tick(p))
         => Settled
      BY DEF Quiet, User, UserEdit, UserDelete, UserCreate, Resync, Crash, Fire, Tick, Spend
<1> QED BY <1>1, <1>2, <1>3 DEF Next, Reconcile, WorkerStep

\* What a step of the worker leaves alone.
LEMMA WorkerFrame ==
    ASSUME Typed, StatusInv, Turn, WorkerStep
    PROVE  /\ rec.active /\ rec'.active /\ ~rec'.stale
           /\ UNCHANGED <<obj, cache, cstale, due, run, budget>>
           /\ ~cstale /\ ~due /\ Idle /\ PassesIdle /\ obj.there
           /\ \A p \in Passes : pc'[p] = pc[p] /\ arg'[p] = arg[p]
<1>1. DOMAIN rec = Fields /\ Shapes
      BY RecFields DEF Typed, CopyInv
<1>2. rec.active /\ UNCHANGED <<obj, cache, cstale, due, run, budget>>
      BY DEF WorkerStep, DeleteOne, JobInvalid, JobDone, JobCreate, HandleJob, Submit, Refuse,
         Compare, ManagerStep, M!UpdateRemove, M!DeleteRemove, M!DeleteDrop, StatusInv, WorkInv,
         reconcileVars
<1>3. rec'.active
      BY GoesOn DEF WorkerStep
<1>4. rec'.stale = rec.stale
  <2>1. CASE \E id \in AllIds : DeleteOne(id)
        BY <1>1, <2>1 DEF DeleteOne, Fields
  <2>2. ASSUME NEW j, JobInvalid(j) \/ JobDone(j) \/ JobCreate(j)
        PROVE  rec'.stale = rec.stale
    <3>1. /\ DOMAIN Taken(j) = DOMAIN Resting /\ DOMAIN Taken(j).inst = DOMAIN Absent
          /\ Taken(j).stale = rec.stale
          BY <1>1, <2>2, TakenKeeps DEF Shapes
    <3>2. Recorded(Taken(j), j, NoId, "Failed").stale = rec.stale
          BY <3>1, RecordedKeeps
    <3> QED BY <2>2, <3>1, <3>2 DEF JobInvalid, JobDone, JobCreate, Resting
  <2>3. CASE Submit \/ Refuse \/ Compare \/ ManagerStep
    <3>1. rec' = rec \/ \E j, id, state : rec' = Recorded(rec, j, id, state)
          BY <2>3 DEF Submit, Refuse, Compare, ManagerStep, Record
    <3> QED BY <1>1, <3>1, RecordedKeeps DEF Shapes
  <2> QED BY <2>1, <2>2, <2>3 DEF WorkerStep
<1>5. \A p \in Passes : pc'[p] = pc[p] /\ arg'[p] = arg[p]
      BY ManagerShapes DEF WorkerStep, DeleteOne, JobInvalid, JobDone, JobCreate, Submit, Refuse,
         Compare, ManagerStep, managerVars, M!CallDelete, M!CreateLoad, M!CreateAdd, M!CreateStore,
         M!CreateAgain, M!UpdateRemove, M!UpdateAdd, M!UpdateStore, M!DeleteRemove, M!DeleteDrop,
         M!ContinueIf, M!Return, M!Goto
<1> QED BY <1>2, <1>3, <1>4, <1>5 DEF Turn

\* And a step of a pass.
LEMMA PassFrame ==
    ASSUME Typed, StatusInv, Turn, NEW p \in Passes, GarbageCollect(p)
    PROVE  /\ UNCHANGED objectVars
           /\ ~cstale /\ ~due /\ ~rec.active /\ Idle /\ pc[R] = "idle"
           /\ p \in M!Threads /\ p # R
           /\ \A t \in M!Threads \ {p} : pc[t] = "idle" /\ pc'[t] = "idle" /\ arg'[t] = arg[t]
<1>1. pc[p] # "idle" /\ UNCHANGED objectVars
      BY DEF GarbageCollect, M!Collect, M!GCVisit, M!GCEnd, M!GCFind, M!GCGetNotFound,
         M!GCGetExists, M!GCRemove, M!GCAdd, M!DeleteLoad, M!DeleteRemove, M!DeleteDrop
<1>2. ~cstale /\ ~due /\ ~rec.active /\ Idle
      BY <1>1 DEF Turn, PassesIdle
<1>3. pc[R] = "idle" /\ p \in M!Threads /\ p # R
      BY <1>2, HPAAssumption DEF StatusInv, WorkInv, M!Threads
<1>4. \A t \in M!Threads \ {p} : pc[t] = "idle"
      BY <1>1, <1>3 DEF Turn, M!Threads
<1>5. \A t \in M!Threads \ {p} : pc'[t] = pc[t] /\ arg'[t] = arg[t]
      BY ManagerShapes DEF GarbageCollect, M!Collect, M!GCVisit, M!GCEnd, M!GCFind,
         M!GCGetNotFound, M!GCGetExists, M!GCRemove, M!GCAdd, M!DeleteLoad, M!DeleteRemove,
         M!DeleteDrop, M!ContinueIf, M!Return, M!Goto
<1> QED BY <1>1, <1>2, <1>3, <1>4, <1>5

-------------------------------------------------------------------------------
\* The users, the informer and the runs.

\* A new version of the object.
LEMMA VersionedTurns ==
    ASSUME Typed, TurnsInv, NEW o, Versioned(o), UNCHANGED <<cache, due, managerVars>>,
           ~due, ~rec.active, PassesIdle, pc[R] = "idle",
           \A i \in AllIds : run'[i] = NoRun,
           Marks(o.conds, o.sparams), o.there => Covers(o.conds)
    PROVE  TurnsInv'
<1>1. /\ rec'.active = rec.active /\ ~rec'.stale /\ rec'.kept = rec.kept
      /\ obj' = o /\ cstale'
      BY RecFields DEF Typed, CopyInv, Versioned, Fields
<1>2. UNCHANGED <<queue, engine, pc, arg, todo>>
      BY DEF managerVars
<1>3. Turn'
      BY <1>1, <1>2 DEF TurnsInv, Turn, Idle, PassesIdle
<1>4. CalmPass' /\ CalmTables'
      BY <1>2 DEF TurnsInv, CalmPass, CalmTables, PassesIdle, Handling, M!Threads
<1>5. NoIds'
      BY <1>1, <1>2, RestingNames DEF TurnsInv, NoIds, Marks, CallPCs
<1>6. Known'
      BY <1>1, <1>2, RestingNames DEF TurnsInv, Known, Covers, CallPCs
<1> QED BY <1>3, <1>4, <1>5, <1>6 DEF TurnsInv

LEMMA SettledFacts ==
    ASSUME Settled, Typed, StatusInv
    PROVE  ~cstale /\ ~due /\ ~rec.active /\ Idle /\ PassesIdle /\ pc[R] = "idle" /\ cache = obj
BY DEF Settled, Idle, PassesIdle, StatusInv, WorkInv, Typed, CopyInv

LEMMA UserTurns ==
    ASSUME Before, Settled, User
    PROVE  TurnsInv'
<1> USE DEF Before, CalmInv
<1>1. Shapes
      BY DEF Typed, CopyInv
<1>2. ASSUME NEW o, Versioned(o), UNCHANGED <<cache, due, run, managerVars>>,
             Marks(o.conds, o.sparams), o.there => Covers(o.conds)
      PROVE  TurnsInv'
      BY <1>2, SettledFacts, VersionedTurns DEF Idle
<1>3. ASSUME NEW jobs, NEW params, UserEdit(jobs, params)
      PROVE  TurnsInv'
  <2> DEFINE o == [obj EXCEPT !.jobs = jobs, !.params = params]
  <2>1. o.conds = obj.conds /\ o.sparams = obj.sparams /\ o.there = obj.there
        BY <1>1 DEF Shapes, Absent
  <2>2. Versioned(o) /\ UNCHANGED <<cache, due, run, managerVars>> /\ obj.there
        BY <1>3 DEF UserEdit
  <2>3. Marks(obj.conds, obj.sparams) /\ Covers(obj.conds)
        BY <2>2, SettledFacts DEF TurnsInv, NoIds, Known
  <2> HIDE DEF o
  <2> QED BY <1>2, <2>1, <2>2, <2>3
<1>4. CASE UserDelete
  <2>1. Versioned(Absent) /\ UNCHANGED <<cache, due, run, managerVars>>
        BY <1>4 DEF UserDelete
  <2> QED BY <1>2, <2>1, RestingNames DEF Marks
<1>5. ASSUME NEW jobs, NEW params, UserCreate(jobs, params)
      PROVE  TurnsInv'
  <2>1. Created(jobs, params).conds = {}
        BY DEF Created, Absent
  <2>2. /\ Versioned(Created(jobs, params)) /\ UNCHANGED <<cache, due, run, managerVars>>
        /\ ~obj.there
        BY <1>5 DEF UserCreate
  <2>3. DOMAIN queue = {}
        BY <2>2, SettledFacts DEF TurnsInv, Known
  <2> QED BY <1>2, <2>1, <2>2, <2>3 DEF Marks, Covers
<1> QED BY <1>3, <1>4, <1>5 DEF User

\* Steps that change only what is due to be done.
LEMMA NoticeTurns ==
    ASSUME Before, Sync \/ (Settled /\ Resync) \/ UNCHANGED vars
    PROVE  TurnsInv'
<1> USE DEF Before, CalmInv, TurnsInv
<1>1. UNCHANGED <<obj, rec, run, queue, engine, pc, arg, todo>>
      BY DEF Sync, Resync, vars, managerVars
<1>2. CalmPass' /\ CalmTables' /\ NoIds'
      BY <1>1 DEF CalmPass, CalmTables, NoIds, M!Threads
<1>3. CASE UNCHANGED vars
      BY <1>1, <1>2, <1>3 DEF vars, Turn, Known, Idle, PassesIdle, Covers, Deleting, Calling, KeptOf
<1>4. CASE Sync \/ (Settled /\ Resync)
  <2>1. ~cstale' /\ due'
        BY <1>4 DEF Sync, Resync, Settled
  <2>2. ~rec.active /\ Idle /\ PassesIdle
        BY <1>4, SettledFacts DEF Sync, Turn
  <2>3. Turn'
        BY <1>1, <2>1, <2>2 DEF Turn, Idle, PassesIdle
  <2>4. Known'
        BY <1>1, <2>1, <2>2 DEF Known, Covers, Calling, KeptOf
  <2> QED BY <1>2, <2>3, <2>4
<1> QED BY <1>3, <1>4

LEMMA FireTurns ==
    ASSUME Before, Settled, NEW id \in AllIds, Fire(id)
    PROVE  TurnsInv'
<1> USE DEF Before, CalmInv, TurnsInv
<1>1. /\ UNCHANGED <<obj, cstale, due, rec, queue, engine, pc, arg, todo>>
      /\ id \in DOMAIN engine
      /\ run'[id].at = "running" /\ run'[id].conds = {}
      /\ \A i \in AllIds \ {id} : run'[i] = run[i]
      BY DEF Fire, managerVars, Typed, CTypes
<1>2. ~cstale /\ ~due /\ ~rec.active /\ Idle /\ PassesIdle /\ pc[R] = "idle"
      BY SettledFacts
<1>3. id \in DOMAIN queue
      BY <1>1, <1>2 DEF CalmTables
<1>4. obj.there
      BY <1>2, <1>3 DEF Known
<1>5. run'[id] # NoRun /\ \A i \in AllIds \ {id} : run'[i] = NoRun
      BY <1>1, <1>2, RestingNames DEF Idle
<1>6. Turn'
      BY <1>1, <1>2, <1>4, <1>5 DEF Turn, Idle, PassesIdle
<1>7. CalmPass' /\ CalmTables'
      BY <1>1 DEF CalmPass, CalmTables, M!Threads
<1>8. NoIds'
      BY <1>1, <1>2, <1>5, RestingNames DEF NoIds, Marks
<1>9. Known'
      BY <1>1, <1>2, <1>3, <1>4, <1>5, RestingNames DEF Known, Covers, Calling, KeptOf, CallPCs,
         PassesIdle
<1> QED BY <1>6, <1>7, <1>8, <1>9

LEMMA TickTurns ==
    ASSUME Before, NEW p \in Passes, M!GCStart(p), UNCHANGED <<obj, cstale, rec, run>>, ~due',
           ~cstale, ~rec.active, Idle, PassesIdle
    PROVE  TurnsInv'
<1> USE DEF Before, CalmInv, TurnsInv
<1>1. /\ UNCHANGED <<queue, engine, arg>> /\ p \in M!Threads /\ p # R
      /\ pc'[p] = "g_range" /\ todo'[p] = DOMAIN queue
      /\ \A t \in M!Threads \ {p} : pc'[t] = pc[t]
      /\ \A q \in Passes \ {p} : todo'[q] = todo[q]
      BY HPAAssumption, ManagerShapes DEF M!GCStart, M!Goto, Typed, M!TypeOK
<1>2. R \in M!Threads /\ pc[R] = "idle" /\ \A q \in Passes : q \in M!Threads
      BY DEF M!Threads, StatusInv, WorkInv
<1>3. Turn'
      BY <1>1, <1>2 DEF Turn, Idle, PassesIdle
<1>4. CalmPass'
      BY <1>1, <1>2 DEF CalmPass, PassesIdle, Handling
<1>5. CalmTables'
      BY <1>1, <1>2 DEF CalmTables, PassesIdle, M!Threads
<1>6. NoIds'
      BY <1>1, <1>2 DEF NoIds, CallPCs
<1>7. Known'
  <2>1. ~PassesIdle'
        BY <1>1 DEF PassesIdle
  <2>2. pc'[R] = "idle"
        BY <1>1, <1>2
  <2> QED BY <1>1, <2>1, <2>2 DEF Known, Covers, Calling, KeptOf, CallPCs
<1> QED BY <1>3, <1>4, <1>5, <1>6, <1>7

LEMMA CrashTurns ==
    ASSUME Before, Settled, Crash
    PROVE  TurnsInv'
<1> USE DEF Before, CalmInv, TurnsInv
<1>1. /\ obj' = obj /\ ~cstale' /\ due' = obj.there /\ rec' = Resting
      /\ run' = [i \in AllIds |-> NoRun]
      /\ DOMAIN queue' = {} /\ DOMAIN engine' = {}
      /\ \A t \in M!Threads : pc'[t] = "idle"
      BY DEF Crash, M!Restart
<1>2. pc'[R] = "idle" /\ \A p \in Passes : pc'[p] = "idle"
      BY <1>1 DEF M!Threads
<1>3. Turn'
      BY <1>1, <1>2, RestingNames, RestingFields DEF Turn, Idle, PassesIdle
<1>4. CalmPass' /\ CalmTables'
      BY <1>1, <1>2 DEF CalmPass, CalmTables, Handling, M!Threads
<1>5. NoIds'
      BY <1>1, <1>2, RestingNames DEF NoIds, Marks, CallPCs
<1>6. Known'
      BY <1>1, <1>2, RestingNames DEF Known, Covers, CallPCs, Named
<1> QED BY <1>3, <1>4, <1>5, <1>6

\* The result of a run replaces the condition of its own identifier and no other.
LEMMA HandledCovers ==
    ASSUME Before, NEW id \in AllIds, run[id].at = "running",
           NEW conds, NEW state, conds =
              {c \in cache.conds : c.id # id /\ c.job.name # run[id].job.work.job.name}
              \cup {[job |-> run[id].job.work.job, id |-> id, state |-> state]}
    PROVE  Covers(conds) /\ Marks(conds, obj.sparams)
<1> USE DEF Before, CalmInv, TurnsInv
<1> DEFINE j == run[id].job.work.job
<1>1. run[id] # NoRun
      BY RestingNames
<1>2. ~cstale /\ ~rec.active /\ obj.there /\ cache = obj
      BY <1>1 DEF Turn, Idle, Typed, CopyInv
<1>3. id \in DOMAIN queue /\ id # NoId /\ Covers(obj.conds)
      BY <1>1, <1>2 DEF Known, NoIds
<1>4. PICK d \in obj.conds : d.id = id
      BY <1>3 DEF Covers
<1>5. d.job = j
  <2>1. Names(id, d.job)
        BY <1>4 DEF Names, Listed
  <2>2. run[id].job \in Launched /\ run[id].job.id = id
        BY DEF Launched, OneJob, OwnRuns
  <2>3. Names(id, j)
        BY <2>2 DEF Names
  <2> QED BY <1>3, <2>1, <2>3 DEF OneJob
<1> DEFINE new == [job |-> j, id |-> id, state |-> state]
<1>6. new \in conds /\ new.id = id
      OBVIOUS
<1>7. ASSUME NEW i \in DOMAIN queue
      PROVE  \E c \in conds : c.id = i
  <2>1. CASE i = id
        BY <1>6, <2>1
  <2>2. CASE i # id
    <3>1. PICK c \in obj.conds : c.id = i
          BY <1>3 DEF Covers
    <3>2. c.job.name # j.name
          BY <1>4, <1>5, <2>2, <3>1 DEF StatusInv, NamesInv, Named
    <3> QED BY <1>2, <2>2, <3>1, <3>2
  <2> QED BY <2>1, <2>2
<1>8. obj.sparams \in ValidParams
      BY <1>3, <1>4 DEF NoIds, Marks
<1>9. \A c \in conds : c \in obj.conds \/ c.id = id
      BY <1>2
<1>10. Marks(conds, obj.sparams)
       BY <1>3, <1>8, <1>9 DEF NoIds, Marks
<1> QED BY <1>7, <1>10 DEF Covers

LEMMA ResultTurns ==
    ASSUME Before, NEW id \in AllIds, Result(id)
    PROVE  TurnsInv'
<1> USE DEF Before, CalmInv, TurnsInv
<1>1. run[id] # NoRun /\ run \in [AllIds -> Runs]
      BY RestingNames DEF Result, HandleResult, Patch, PatchLost, Typed, CTypes
<1>2. /\ ~cstale /\ ~due /\ ~rec.active /\ PassesIdle /\ pc[R] = "idle" /\ obj.there
      /\ cache = obj /\ \A i \in AllIds \ {id} : run[i] = NoRun
      BY <1>1 DEF Turn, Idle, StatusInv, WorkInv, Typed, CopyInv
<1>3. Shapes
      BY DEF Typed, CopyInv
<1>4. CASE Patch(id)
  <2> DEFINE o == [obj EXCEPT !.conds = run[id].conds]
  <2>1. o.conds = run[id].conds /\ o.sparams = obj.sparams
        BY <1>3 DEF Shapes, Absent
  <2>2. /\ Versioned(o) /\ UNCHANGED <<cache, due, managerVars>> /\ run[id].at = "patching"
        /\ \A i \in AllIds : run'[i] = NoRun
        BY <1>1, <1>2, <1>4 DEF Patch
  <2>3. Marks(o.conds, o.sparams) /\ Covers(o.conds)
        BY <2>1, <2>2 DEF NoIds, Known
  <2> HIDE DEF o
  <2> QED BY <1>2, <2>2, <2>3, VersionedTurns
<1>5. ASSUME UNCHANGED <<obj, cstale, due, rec, managerVars>>,
             \A i \in AllIds \ {id} : run'[i] = NoRun,
             Marks(run'[id].conds, obj.sparams),
             run'[id].at = "patching" => Covers(run'[id].conds)
      PROVE  TurnsInv'
  <2>1. UNCHANGED <<queue, engine, pc, arg, todo>>
        BY <1>5 DEF managerVars
  <2>2. Turn'
        BY <1>2, <1>5, <2>1 DEF Turn, Idle, PassesIdle
  <2>3. CalmPass' /\ CalmTables'
        BY <1>5, <2>1 DEF CalmPass, CalmTables, M!Threads
  <2>4. NoIds'
        BY <1>2, <1>5, <2>1, RestingNames DEF NoIds, Marks
  <2>5. Known'
        BY <1>1, <1>2, <1>5, <2>1, RestingNames DEF Known, Covers, Calling, KeptOf, CallPCs
  <2> QED BY <2>2, <2>3, <2>4, <2>5
<1>6. CASE PatchLost(id)
  <2>1. run'[id] = NoRun /\ \A i \in AllIds \ {id} : run'[i] = NoRun
        BY <1>1, <1>2, <1>6 DEF PatchLost
  <2> QED BY <1>5, <1>6, <2>1, RestingNames DEF PatchLost, Marks
<1>7. CASE HandleResult(id)
  <2> DEFINE conds(state) ==
               {c \in cache.conds : c.id # id /\ c.job.name # run[id].job.work.job.name}
               \cup {[job |-> run[id].job.work.job, id |-> id, state |-> state]}
  <2>1. PICK state \in Final : run' = [run EXCEPT ![id] =
                                  [at |-> "patching", job |-> NoJob, conds |-> conds(state)]]
        BY <1>2, <1>7 DEF HandleResult
  <2>2. run'[id].conds = conds(state) /\ \A i \in AllIds \ {id} : run'[i] = NoRun
        BY <1>1, <1>2, <2>1
  <2>3. Covers(conds(state)) /\ Marks(conds(state), obj.sparams)
        BY <1>7, HandledCovers DEF HandleResult
  <2> HIDE DEF conds
  <2> QED BY <1>5, <1>7, <2>2, <2>3 DEF HandleResult
<1> QED BY <1>4, <1>6, <1>7 DEF Result

-------------------------------------------------------------------------------
\* The worker.

LEMMA ReadTurns ==
    ASSUME Before, Read
    PROVE  TurnsInv'
<1> USE DEF Before, CalmInv, TurnsInv
<1> DEFINE kept == {c \in cache.conds : ~GlobalChange /\ Unchanged(c)}
           expired == {c \in cache.conds : GlobalChange \/ Expired(c)}
<1>1. /\ rec'.active /\ rec'.jobs = cache.jobs /\ rec'.kept = kept
      /\ rec'.dels = {c.id : c \in expired} \ {NoId} /\ rec'.stale = cstale
      /\ rec'.inst = [cache EXCEPT !.sparams = cache.params, !.conds = kept]
      /\ UNCHANGED <<obj, cache, cstale, run, queue, engine, pc, arg, todo>>
      /\ due /\ ~due' /\ ~rec.active /\ cache.there /\ pc[R] = "idle"
      BY DEF Read, Resting, managerVars, Popped, StatusInv, WorkInv
<1>2. rec'.inst.params = cache.params /\ rec'.inst.conds = kept
      BY <1>1 DEF Typed, CopyInv, Shapes, Absent
<1>3. ~cstale /\ cache = obj /\ Idle /\ PassesIdle
      BY <1>1 DEF Turn, Typed, CopyInv
<1>4. \A c \in obj.conds : c \in kept \/ c \in expired
      BY <1>3 DEF Expired
<1>5. kept \subseteq obj.conds /\ (kept # {} => obj.sparams = obj.params)
      BY <1>3 DEF GlobalChange
<1> HIDE DEF kept, expired
<1>6. Turn'
      BY <1>1, <1>3 DEF Turn, Idle, PassesIdle
<1>7. CalmPass' /\ CalmTables'
      BY <1>1 DEF CalmPass, CalmTables, M!Threads
<1>8. NoIds'
      BY <1>1, <1>2, <1>3, <1>5, RestingNames DEF NoIds, Marks, CallPCs
<1>9. Known'
  <2>1. ASSUME NEW i \in DOMAIN queue
        PROVE  i \in rec'.dels \/ \E c \in rec'.inst.conds : c.id = i
    <3>1. PICK c \in obj.conds : c.id = i
          BY <1>1, <1>3 DEF Known, Covers
    <3>2. i # NoId
          BY DEF NoIds
    <3> QED BY <1>1, <1>2, <1>4, <3>1, <3>2
  <2>2. Named(rec'.kept)
        BY <1>1, <1>5 DEF StatusInv, NamesInv, Named
  <2> QED BY <1>1, <1>2, <1>3, <2>1, <2>2, RestingNames DEF Known, Deleting, CallPCs, Idle
<1> QED BY <1>6, <1>7, <1>8, <1>9

\* The end of a reconcile: the status is what the worker's instance has.
LEMMA EndWrites ==
    ASSUME Before, Skip \/ Update
    PROVE  /\ rec.active /\ pc[R] = "idle" /\ rec.dels = {} /\ rec.jobs = {} /\ rec' = Resting
           /\ UNCHANGED <<cache, due, run, queue, engine, pc, arg, todo>>
           /\ ~cstale /\ ~due /\ Idle /\ PassesIdle /\ obj.there
           /\ obj'.there /\ obj'.conds = rec.inst.conds
           /\ obj'.conds # {} => obj'.sparams = rec.inst.params
<1> USE DEF Before, CalmInv, TurnsInv
<1>1. /\ rec.active /\ pc[R] = "idle" /\ rec.dels = {} /\ rec.jobs = {}
      /\ rec' = Resting /\ UNCHANGED <<cache, due, run, queue, engine, pc, arg, todo>>
      BY DEF Skip, Update, Handled, reconcileVars, managerVars
<1>2. ~cstale /\ ~due /\ ~rec.stale /\ Idle /\ PassesIdle /\ obj.there
      BY <1>1 DEF Turn
<1>3. CASE Skip
  <2>1. /\ obj' = obj /\ obj.conds = rec.inst.conds /\ rec.inst.conds = rec.kept
        /\ rec.kept # {} => obj.sparams = obj.params
        BY <1>1, <1>2, <1>3 DEF Skip, NoUpdate, reconcileVars, StatusInv, InstInv
  <2>2. obj.params = rec.inst.params
        BY <1>1, <1>2 DEF Typed, CopyInv, Same
  <2> QED BY <1>1, <1>2, <2>1, <2>2
<1>4. CASE Update
      BY <1>1, <1>2, <1>4 DEF Update, StatusInv, InstInv
<1> QED BY <1>3, <1>4

LEMMA EndTurns ==
    ASSUME Before, Skip \/ Update
    PROVE  TurnsInv'
<1> USE DEF Before, CalmInv, TurnsInv
<1>1. /\ rec.active /\ pc[R] = "idle" /\ rec.dels = {}
      /\ rec' = Resting /\ UNCHANGED <<cache, due, run, queue, engine, pc, arg, todo>>
      /\ ~cstale /\ ~due /\ Idle /\ PassesIdle
      /\ obj'.there /\ obj'.conds = rec.inst.conds
      /\ obj'.conds # {} => obj'.sparams = rec.inst.params
      BY EndWrites
<1>2. Covers(rec.inst.conds)
      BY <1>1 DEF Known, Deleting, Covers
<1>3. Turn'
      BY <1>1, RestingNames, RestingFields DEF Turn, Idle, PassesIdle
<1>4. CalmPass' /\ CalmTables'
      BY <1>1 DEF CalmPass, CalmTables, PassesIdle, Handling, M!Threads
<1>5. Marks(obj'.conds, obj'.sparams)
      BY <1>1 DEF NoIds, Marks
<1>6. NoIds'
      BY <1>1, <1>5, RestingNames DEF NoIds, Marks, CallPCs, Idle
<1>7. Known'
      BY <1>1, <1>2, RestingNames DEF Known, Covers, CallPCs, Idle, Named
<1> QED BY <1>3, <1>4, <1>6, <1>7

\* The worker's steps in the manager.
LEMMA WorkerTables ==
    ASSUME Before, PassesIdle,
           \/ \E id \in AllIds, work \in Works : M!CreateLoad([id |-> id, work |-> work])
           \/ \E id \in AllIds : M!CallDelete(id)
           \/ M!Create \/ M!DeleteRemove(R) \/ M!DeleteDrop(R)
    PROVE  /\ CalmTables'
           /\ \A i \in DOMAIN queue' :
                 i \in DOMAIN queue \/ (pc[R] \in {"c_store", "u_store"} /\ i = arg[R].id)
<1> USE DEF Before, CalmInv, TurnsInv
<1> DEFINE j == arg[R]
<1>0. \A t \in M!Threads \ {R} : pc'[t] # "d_drop"
  <2>1. \A t \in M!Threads \ {R} : pc[t] = "idle" /\ pc'[t] = pc[t]
        BY ManagerShapes DEF PassesIdle, M!Threads, M!CallDelete, M!CreateLoad, M!Create,
           M!CreateAdd, M!CreateStore, M!CreateAgain, M!UpdateRemove, M!UpdateAdd, M!UpdateStore,
           M!DeleteRemove, M!DeleteDrop, M!ContinueIf, M!Return, M!Goto
  <2> QED BY <2>1
<1>1. CASE \/ \E id \in AllIds, work \in Works : M!CreateLoad([id |-> id, work |-> work])
           \/ \E id \in AllIds : M!CallDelete(id)
  <2>1. /\ pc[R] = "idle" /\ UNCHANGED <<queue, engine>>
        /\ pc'[R] \in {"c_again", "c_add", "d_remove"}
        /\ pc'[R] = "c_again" => arg'[R].id \in DOMAIN queue
        BY <1>1, ManagerShapes DEF M!CreateLoad, M!CallDelete, M!Goto
  <2> QED BY <1>0, <2>1 DEF CalmTables
<1>2. CASE M!CreateAdd \/ M!UpdateAdd
  <2>1. /\ pc[R] \in {"c_add", "u_add"} /\ queue' = queue
        /\ pc[R] = "u_add" => j.id \in DOMAIN queue
        BY <1>2 DEF M!CreateAdd, M!UpdateAdd, CalmTables
  <2>2. \/ /\ engine' = M!Table!Scheduled(engine, j) /\ arg' = arg
           /\ pc'[R] = IF pc[R] = "c_add" THEN "c_store" ELSE "u_store"
        \/ engine' = engine /\ pc'[R] = "idle"
        BY <1>2, ManagerShapes DEF M!CreateAdd, M!UpdateAdd, M!AddJob, M!ContinueIf, M!Return, M!Goto
  <2> QED BY <1>0, <2>1, <2>2 DEF CalmTables, M!Table!Scheduled
<1>3. CASE M!CreateStore \/ M!UpdateStore
  <2>1. /\ pc[R] \in {"c_store", "u_store"} /\ engine' = engine /\ pc'[R] = "idle"
        /\ queue' = M!Table!Scheduled(queue, j)
        BY <1>3, ManagerShapes DEF M!CreateStore, M!UpdateStore, M!Store, M!Return, M!Goto
  <2> QED BY <1>0, <2>1 DEF CalmTables, M!Table!Scheduled
<1>4. CASE M!CreateAgain
  <2>1. /\ pc[R] = "c_again" /\ UNCHANGED <<queue, engine>>
        /\ pc'[R] = "idle" \/ (pc'[R] = "u_remove" /\ arg'[R] = j)
        BY <1>4, ManagerShapes DEF M!CreateAgain, M!ContinueIf, M!Return, M!Goto
  <2> QED BY <1>0, <2>1 DEF CalmTables
<1>5. CASE M!UpdateRemove \/ M!DeleteRemove(R)
  <2>1. /\ pc[R] \in {"u_remove", "d_remove"} /\ UNCHANGED <<queue, arg>>
        /\ pc'[R] = IF pc[R] = "u_remove" THEN "u_add" ELSE "d_drop"
        /\ engine' = M!Table!Unscheduled(engine, j.id)
        BY <1>5, ManagerShapes DEF M!UpdateRemove, M!DeleteRemove, M!RemoveJob, M!Goto
  <2>2. DOMAIN engine' = DOMAIN engine \ {j.id}
        BY <2>1 DEF M!Table!Unscheduled
  <2> QED BY <1>0, <2>1, <2>2 DEF CalmTables
<1>6. CASE M!DeleteDrop(R)
  <2>1. /\ pc[R] = "d_drop" /\ pc'[R] = "idle" /\ engine' = engine /\ R \in M!Threads
        /\ queue' = M!Table!Unscheduled(queue, j.id)
        BY <1>6, ManagerShapes DEF M!DeleteDrop, M!Return, M!Goto
  <2>2. DOMAIN queue' = DOMAIN queue \ {j.id}
        BY <2>1 DEF M!Table!Unscheduled
  <2> QED BY <1>0, <2>1, <2>2 DEF CalmTables
<1> QED BY <1>1, <1>2, <1>3, <1>4, <1>5, <1>6 DEF M!Create

\* What is left to show of a step of the worker.
LEMMA WorkerTurns ==
    ASSUME Before, WorkerStep,
           NoId \notin DOMAIN queue',
           CalmTables',
           rec'.kept = rec.kept, rec'.inst.params = rec.inst.params,
           pc'[R] \in CallPCs =>
              /\ arg'[R].id # NoId /\ rec.inst.params \in ValidParams
              /\ arg'[R].work.job \notin rec'.jobs
              /\ \A c \in KeptOf(arg'[R].work.job) : c.id = arg'[R].id,
           Marks(rec'.inst.conds, rec.inst.params),
           \A i \in DOMAIN queue' : Deleting(i)' \/ \E c \in rec'.inst.conds : c.id = i,
           \A c \in rec'.inst.conds : c.job \in rec'.jobs \/ Calling(c.job)' => c \in rec.kept
    PROVE  TurnsInv'
<1> USE DEF Before, CalmInv, TurnsInv
<1>1. /\ rec.active /\ rec'.active /\ ~rec'.stale
      /\ UNCHANGED <<obj, cache, cstale, due, run, budget>>
      /\ ~cstale /\ ~due /\ Idle /\ PassesIdle /\ obj.there
      /\ \A p \in Passes : pc'[p] = pc[p] /\ arg'[p] = arg[p]
      BY WorkerFrame
<1>2. Turn'
      BY <1>1 DEF Turn, Idle, PassesIdle
<1>3. CalmPass'
      BY <1>1 DEF CalmPass, PassesIdle, Handling
<1>4. NoIds'
      BY <1>1 DEF NoIds
<1>5. Known'
      BY <1>1, RestingNames DEF Known, Idle, KeptOf
<1> QED BY <1>2, <1>3, <1>4, <1>5

LEMMA DeleteTurns ==
    ASSUME Before, NEW id \in AllIds, DeleteOne(id)
    PROVE  TurnsInv'
<1> USE DEF Before, CalmInv, TurnsInv
<1>1. /\ WorkerStep /\ rec.active /\ pc[R] = "idle" /\ id \in rec.dels
      /\ rec'.dels = rec.dels \ {id} /\ rec'.jobs = rec.jobs /\ rec'.inst = rec.inst
      /\ rec'.kept = rec.kept
      BY RecFields DEF WorkerStep, DeleteOne, Typed, CopyInv, Fields
<1>2. /\ queue' = queue
      /\ \/ pc'[R] = "d_remove" /\ arg'[R].id = id
         \/ pc'[R] = "idle" /\ id \notin DOMAIN queue
      BY <1>1, ManagerShapes DEF DeleteOne, M!CallDelete, M!Goto, managerVars
<1>3. CalmTables'
  <2>1. CASE UNCHANGED managerVars
        BY <2>1 DEF managerVars, CalmTables, M!Threads
  <2>2. CASE M!CallDelete(id)
        BY <1>1, <2>2, WorkerFrame, WorkerTables
  <2> QED BY <2>1, <2>2 DEF DeleteOne
<1>4. \A i \in DOMAIN queue : Deleting(i) => Deleting(i)'
      BY <1>1, <1>2 DEF Deleting
<1>5. pc'[R] \notin CallPCs /\ pc[R] \notin CallPCs
      BY <1>1, <1>2 DEF CallPCs
<1>6. Marks(rec.inst.conds, rec.inst.params)
      BY <1>1 DEF NoIds
<1> QED BY <1>1, <1>2, <1>3, <1>4, <1>5, <1>6, WorkerTurns DEF Known, Calling, NoIds

LEMMA DoneTurns ==
    ASSUME Before, NEW j \in JobSpecs, JobDone(j)
    PROVE  TurnsInv'
<1> USE DEF Before, CalmInv, TurnsInv
<1>1. /\ WorkerStep /\ rec.active /\ pc[R] = "idle" /\ rec.dels = {}
      /\ UNCHANGED <<queue, engine, pc, arg>>
      BY DEF WorkerStep, JobDone, HandleJob, managerVars
<1>2. PICK c \in KeptOf(j) : rec' = [Taken(j) EXCEPT !.dels = {c.id}]
      BY DEF JobDone
<1>3. /\ rec'.jobs = rec.jobs \ {j} /\ rec'.inst = rec.inst /\ rec'.kept = rec.kept
  <2>1. /\ DOMAIN Taken(j) = Fields /\ Taken(j).inst = rec.inst /\ Taken(j).kept = rec.kept
        /\ Taken(j).jobs = rec.jobs \ {j}
        BY TakenFields DEF Typed, CopyInv
  <2> QED BY <1>2, <2>1 DEF Fields
<1>4. CalmTables'
      BY <1>1 DEF CalmTables, M!Threads
<1>5. pc'[R] \notin CallPCs /\ \A i : ~Deleting(i)
      BY <1>1 DEF CallPCs, Deleting
<1>6. Marks(rec.inst.conds, rec.inst.params)
      BY <1>1 DEF NoIds
<1> QED BY <1>1, <1>3, <1>4, <1>5, <1>6, WorkerTurns DEF Known, Calling, NoIds

\* What a rejected job drops has no identifier.
LEMMA InvalidTurns ==
    ASSUME Before, NEW j \in JobSpecs, JobInvalid(j)
    PROVE  TurnsInv'
<1> USE DEF Before, CalmInv, TurnsInv
<1>1. /\ WorkerStep /\ rec.active /\ pc[R] = "idle" /\ rec.dels = {}
      /\ UNCHANGED <<queue, engine, pc, arg>> /\ rec.inst.params \notin ValidParams
      BY DEF WorkerStep, JobInvalid, HandleJob, managerVars
<1>2. /\ rec'.jobs = rec.jobs \ {j} /\ rec'.kept = rec.kept
      /\ rec'.inst.params = rec.inst.params
      /\ rec'.inst.conds = {c \in rec.inst.conds : c.job.name # j.name}
                           \cup {[job |-> j, id |-> NoId, state |-> "Failed"]}
  <2>1. /\ DOMAIN Taken(j) = Fields /\ Taken(j).inst = rec.inst /\ Taken(j).kept = rec.kept
        /\ Taken(j).jobs = rec.jobs \ {j} /\ DOMAIN rec.inst = DOMAIN Absent
        BY TakenFields DEF Typed, CopyInv, Shapes
  <2>2. PICK s : s = Recorded(Taken(j), j, NoId, "Failed")
        OBVIOUS
  <2>3. /\ s.jobs = rec.jobs \ {j} /\ s.kept = rec.kept /\ s.inst.params = rec.inst.params
        /\ s.inst.conds = {c \in rec.inst.conds : c.job.name # j.name}
                          \cup {[job |-> j, id |-> NoId, state |-> "Failed"]}
        BY ONLY <2>1, <2>2 DEF Recorded, Fields, Absent
  <2> QED BY <2>2, <2>3 DEF JobInvalid
<1>3. CalmTables'
      BY <1>1 DEF CalmTables, M!Threads
<1>4. pc'[R] \notin CallPCs /\ \A i : ~Deleting(i)
      BY <1>1 DEF CallPCs, Deleting
<1>5. \A c \in rec.inst.conds : c.id = NoId
      BY <1>1 DEF NoIds, Marks
<1>6. DOMAIN queue = {}
      BY <1>1, <1>4, <1>5 DEF Known, NoIds
<1>7. Marks(rec'.inst.conds, rec.inst.params)
      BY <1>1, <1>2, <1>5 DEF Marks
<1>8. \A c \in rec'.inst.conds : c.job \in rec'.jobs => c \in rec.kept
      BY <1>1, <1>2 DEF Known
<1> QED BY <1>1, <1>2, <1>3, <1>4, <1>6, <1>7, <1>8, WorkerTurns DEF Calling, NoIds

\* A job goes to the manager under the identifier of the condition left, if there is one.
LEMMA CreateTurns ==
    ASSUME Before, NEW j \in JobSpecs, JobCreate(j)
    PROVE  TurnsInv'
<1> USE DEF Before, CalmInv, TurnsInv
<1>1. /\ WorkerStep /\ rec.active /\ pc[R] = "idle" /\ rec.dels = {} /\ j \in rec.jobs
      /\ rec.inst.params \in ValidParams /\ rec' = Taken(j)
      BY DEF WorkerStep, JobCreate, HandleJob
<1>2. PICK id \in AllIds :
         /\ IF KeptOf(j) = {} THEN id \in Ids ELSE \E c \in KeptOf(j) : c.id = id
         /\ M!CreateLoad([id |-> id, work |-> [job |-> j, params |-> rec.inst.params]])
      BY DEF JobCreate
<1>3. rec'.jobs = rec.jobs \ {j} /\ rec'.inst = rec.inst /\ rec'.kept = rec.kept
      BY <1>1, TakenFields DEF Typed, CopyInv
<1>4. /\ queue' = queue /\ pc'[R] \in {"c_add", "c_again"}
      /\ arg'[R] = [id |-> id, work |-> [job |-> j, params |-> rec.inst.params]]
      BY <1>2, ManagerShapes DEF M!CreateLoad, M!Goto
<1>5. CalmTables'
  <2>1. [job |-> j, params |-> rec.inst.params] \in Works
        BY <1>1 DEF ListsInv, Works
  <2> QED BY <1>1, <1>2, <2>1, WorkerFrame, WorkerTables
<1>6. id # NoId /\ \A c \in KeptOf(j) : c.id = id
  <2>1. CASE KeptOf(j) = {}
        BY <1>2, <2>1, HPAAssumption
  <2>2. CASE KeptOf(j) # {}
        BY <1>1, <1>2, <2>2 DEF KeptOf, NoIds, Marks, Known, Named
  <2> QED BY <2>1, <2>2
<1>7. ~(\E i : Deleting(i)) /\ Marks(rec.inst.conds, rec.inst.params)
      BY <1>1 DEF Deleting, NoIds
<1>8. \A c \in rec.inst.conds : c.job \in rec'.jobs \/ c.job = j => c \in rec.kept
      BY <1>1, <1>3 DEF Known
<1>9. \A i \in DOMAIN queue : \E c \in rec'.inst.conds : c.id = i
      BY <1>1, <1>3, <1>7 DEF Known
<1>10. arg'[R].id = id /\ arg'[R].work.job = j /\ j \notin rec'.jobs
       BY <1>3, <1>4
<1> QED BY <1>1, <1>3, <1>4, <1>5, <1>6, <1>7, <1>8, <1>9, <1>10, WorkerTurns DEF Calling, NoIds

\* At the end of a call: what the new condition replaces is the condition left.
LEMMA RecordTurns ==
    ASSUME DistinctNames, Before, WorkerStep, pc[R] \in CallPCs, pc'[R] = "idle", CalmTables',
           \A i \in DOMAIN queue' : i \in DOMAIN queue \/ i = arg[R].id,
           NEW state, rec' = Recorded(rec, arg[R].work.job, arg[R].id, state)
    PROVE  TurnsInv'
<1> USE DEF Before, CalmInv, TurnsInv
<1> DEFINE j == arg[R].work.job
           id == arg[R].id
           new == [job |-> j, id |-> id, state |-> state]
<1>1. rec.active /\ j \in rec.inst.jobs /\ rec.inst.jobs \in JobLists
      BY WorkerFrame DEF StatusInv, WorkInv, ListsInv
<1>2. /\ rec'.jobs = rec.jobs /\ rec'.kept = rec.kept /\ rec'.dels = rec.dels
      /\ rec'.inst.params = rec.inst.params
      /\ rec'.inst.conds = {c \in rec.inst.conds : c.job.name # j.name} \cup {new}
      BY RecordedFields
<1>3. \A c \in rec.inst.conds : c.job.name = j.name => c.id = id
  <2> SUFFICES ASSUME NEW c \in rec.inst.conds, c.job.name = j.name
               PROVE  c.id = id
      OBVIOUS
  <2>1. c.job = j
        BY <1>1 DEF StatusInv, InstInv, DistinctNames, Distinct
  <2>2. c \in KeptOf(j)
        BY <1>1, <2>1 DEF Known, Calling, KeptOf
  <2> QED BY <2>2 DEF Known
<1>4. /\ id # NoId /\ rec.inst.params \in ValidParams /\ Marks(rec.inst.conds, rec.inst.params)
      /\ j \notin rec.jobs
      BY <1>1 DEF NoIds, Known
<1> HIDE DEF j, id
<1>5. new \in rec'.inst.conds /\ new.id = id
      BY <1>2
<1>6. Marks(rec'.inst.conds, rec.inst.params)
      BY <1>2, <1>4 DEF Marks
<1>7. ASSUME NEW i \in DOMAIN queue'
      PROVE  Deleting(i)' \/ \E c \in rec'.inst.conds : c.id = i
  <2>1. CASE i = id
        BY <1>5, <2>1
  <2>2. CASE i # id
    <3>1. i \in DOMAIN queue
          BY <2>2 DEF id
    <3>2. CASE Deleting(i)
          BY <1>2, <3>2 DEF Deleting, CallPCs
    <3>3. ASSUME NEW c \in rec.inst.conds, c.id = i
          PROVE  \E d \in rec'.inst.conds : d.id = i
          BY <1>2, <1>3, <2>2, <3>3
    <3> QED BY <1>1, <3>1, <3>2, <3>3 DEF Known
  <2> QED BY <2>1, <2>2
<1>8. \A c \in rec'.inst.conds : c.job \in rec'.jobs => c \in rec.kept
      BY <1>1, <1>2, <1>4 DEF Known
<1>9. pc'[R] \notin CallPCs /\ \A k : ~Calling(k)'
      BY DEF CallPCs, Calling
<1>10. NoId \notin DOMAIN queue'
      BY <1>4 DEF NoIds, id
<1> QED BY <1>2, <1>6, <1>7, <1>8, <1>9, <1>10, WorkerTurns

\* The worker goes on, or ends its call, recording nothing.
LEMMA GoOnTurns ==
    ASSUME Before, WorkerStep, UNCHANGED rec, CalmTables',
           \A i \in DOMAIN queue' : i \in DOMAIN queue /\ (Deleting(i) => Deleting(i)'),
           pc'[R] \in CallPCs => pc[R] \in CallPCs /\ arg'[R] = arg[R]
    PROVE  TurnsInv'
<1> USE DEF Before, CalmInv, TurnsInv
<1>1. rec.active
      BY WorkerFrame
<1>2. NoId \notin DOMAIN queue'
      BY DEF NoIds
<1>3. Marks(rec.inst.conds, rec.inst.params)
      BY <1>1 DEF NoIds
<1>4. \A k : Calling(k)' => Calling(k)
      BY DEF Calling
<1>5. pc'[R] \in CallPCs =>
         /\ arg'[R].id # NoId /\ rec.inst.params \in ValidParams
         /\ arg'[R].work.job \notin rec'.jobs
         /\ \A c \in KeptOf(arg'[R].work.job) : c.id = arg'[R].id
      BY <1>1 DEF NoIds, Known
<1> QED BY <1>1, <1>2, <1>3, <1>4, <1>5, WorkerTurns DEF Known

\* A step of a call records nothing; what the manager drops, the worker is deleting.
Continues ==
    /\ rec' = rec
    /\ \A i \in DOMAIN queue' :
          i \in DOMAIN queue /\ queue'[i] = queue[i] /\ (Deleting(i) => Deleting(i)')
    /\ \A i \in DOMAIN queue : i \in DOMAIN queue' \/ Deleting(i)
    /\ \A i : Deleting(i)' => Deleting(i)
    /\ IF pc'[R] \in CallPCs
       THEN pc[R] \in CallPCs /\ arg'[R] = arg[R]
       ELSE pc[R] \in CallPCs => arg[R].id \in DOMAIN queue'

\* Or it ends the call and records its outcome.
Records(state) ==
    /\ pc[R] \in CallPCs /\ pc'[R] = "idle"
    /\ \A i \in DOMAIN queue' :
          \/ i \in DOMAIN queue /\ queue'[i] = queue[i]
          \/ i = arg[R].id /\ queue'[i] = arg[R]
    /\ DOMAIN queue \subseteq DOMAIN queue'
    /\ arg[R].work.job.plan \in GoodPlans => arg[R].id \in DOMAIN queue'
    /\ rec' = Recorded(rec, arg[R].work.job, arg[R].id, state)

LEMMA CallMoves ==
    ASSUME Before, Submit \/ Refuse \/ Compare \/ ManagerStep
    PROVE  ran' = ran /\ CalmTables' /\ (Continues \/ \E state : Records(state))
<1> USE DEF Before, CalmInv, TurnsInv
<1>1. /\ WorkerStep /\ PassesIdle /\ ran' = ran
      /\ M!Create \/ M!DeleteRemove(R) \/ M!DeleteDrop(R)
      BY WorkerFrame DEF WorkerStep, Submit, Refuse, Compare, ManagerStep, M!Create
<1>2. /\ CalmTables'
      /\ \A i \in DOMAIN queue' :
            i \in DOMAIN queue \/ (pc[R] \in {"c_store", "u_store"} /\ i = arg[R].id)
      BY <1>1, WorkerTables
<1> SUFFICES Continues \/ \E state : Records(state)
    BY <1>1, <1>2
<1>3. CASE Submit
  <2>1. /\ pc[R] \in {"c_store", "u_store"} /\ pc'[R] = "idle"
        /\ rec' = Recorded(rec, arg[R].work.job, arg[R].id, "Submitted")
        BY <1>3, ManagerShapes DEF Submit, Record, M!CreateStore, M!UpdateStore, M!Return, M!Goto
  <2>2. queue' = M!Table!Scheduled(queue, arg[R])
        BY <1>3 DEF Submit, M!CreateStore, M!UpdateStore, M!Store
  <2>3. /\ DOMAIN queue' = DOMAIN queue \cup {arg[R].id} /\ queue'[arg[R].id] = arg[R]
        /\ \A i \in DOMAIN queue \ {arg[R].id} : queue'[i] = queue[i]
        BY <2>2 DEF M!Table!Scheduled
  <2>4. Records("Submitted")
        BY <2>1, <2>3 DEF Records, CallPCs
  <2> QED BY <2>4
<1>4. CASE Refuse
  <2> DEFINE good == arg[R].work.job.plan \in GoodPlans
  <2>1. pc[R] \in {"c_add", "u_add"} /\ arg[R] \in M!Jobs
        BY <1>4, ManagerShapes DEF Refuse
  <2>2. arg[R].work \in {w \in Works : w.job.plan \in GoodPlans} <=> good
        BY <2>1 DEF M!Jobs
  <2>3. /\ queue' = queue
        /\ IF good THEN pc'[R] \in {"c_store", "u_store"} /\ arg' = arg ELSE pc'[R] = "idle"
        BY <1>4, <2>2, ManagerShapes DEF Refuse, M!CreateAdd, M!UpdateAdd, M!ContinueIf,
           M!Return, M!Goto
  <2>4. CASE good
        BY <1>4, <2>1, <2>3, <2>4 DEF Refuse, Continues, Deleting, CallPCs
  <2>5. CASE ~good
    <3>1. Records("Failed")
          BY <1>4, <2>1, <2>3, <2>5 DEF Refuse, Record, Records, CallPCs
    <3> QED BY <3>1
  <2> QED BY <2>4, <2>5
<1>5. CASE Compare
  <2>1. pc[R] = "c_again" /\ arg[R].id \in DOMAIN queue /\ UNCHANGED <<rec, queue>>
        BY <1>5 DEF Compare, M!CreateAgain, CalmTables
  <2>2. pc'[R] = "idle" \/ (pc'[R] = "u_remove" /\ arg'[R] = arg[R])
        BY <1>5, ManagerShapes DEF Compare, M!CreateAgain, M!ContinueIf, M!Return, M!Goto
  <2> QED BY <2>1, <2>2 DEF Continues, Deleting, CallPCs
<1>6. CASE ManagerStep
  <2>1. rec' = rec
        BY <1>6 DEF ManagerStep
  <2>2. CASE M!UpdateRemove \/ M!DeleteRemove(R)
    <3>1. /\ UNCHANGED <<queue, arg>>
          /\ \/ pc[R] = "u_remove" /\ pc'[R] = "u_add"
             \/ pc[R] = "d_remove" /\ pc'[R] = "d_drop"
          BY <2>2, ManagerShapes DEF M!UpdateRemove, M!DeleteRemove, M!Goto
    <3> QED BY <2>1, <3>1 DEF Continues, Deleting, CallPCs
  <2>3. CASE M!DeleteDrop(R)
    <3>1. /\ pc[R] = "d_drop" /\ pc'[R] = "idle"
          /\ queue' = M!Table!Unscheduled(queue, arg[R].id)
          BY <2>3, ManagerShapes DEF M!DeleteDrop, M!Return, M!Goto
    <3>2. /\ DOMAIN queue' = DOMAIN queue \ {arg[R].id}
          /\ \A i \in DOMAIN queue' : queue'[i] = queue[i]
          BY <3>1 DEF M!Table!Unscheduled
    <3> QED BY <2>1, <3>1, <3>2 DEF Continues, Deleting, CallPCs
  <2> QED BY <1>6, <2>2, <2>3 DEF ManagerStep
<1> QED BY <1>3, <1>4, <1>5, <1>6

LEMMA CallTurns ==
    ASSUME DistinctNames, Before, Submit \/ Refuse \/ Compare \/ ManagerStep
    PROVE  TurnsInv'
<1>1. WorkerStep
      BY DEF WorkerStep
<1> QED BY <1>1, CallMoves, RecordTurns, GoOnTurns DEF Continues, Records

LEMMA WorkerKeepsTurns ==
    ASSUME DistinctNames, Before, WorkerStep
    PROVE  TurnsInv'
BY DeleteTurns, InvalidTurns, DoneTurns, CreateTurns, CallTurns DEF WorkerStep

LEMMA ReadGoneTurns ==
    ASSUME Before, ReadGone
    PROVE  TurnsInv'
<1>1. ~cstale /\ ~rec.active /\ Idle /\ PassesIdle /\ ~due' /\ UNCHANGED <<obj, cstale, rec, run>>
      BY DEF Before, CalmInv, TurnsInv, Turn, ReadGone, Popped
<1> QED BY <1>1, TickTurns DEF ReadGone

-------------------------------------------------------------------------------
\* The passes.

\* A pass looks while the object is there, and deletes what is tracked when it is gone.
LEMMA PassTurns ==
    ASSUME Before, NEW p \in Passes, GarbageCollect(p)
    PROVE  TurnsInv'
<1> USE DEF Before, CalmInv, TurnsInv
<1> DEFINE i == arg[p].id
           Good == /\ DOMAIN queue' \subseteq DOMAIN queue
                   /\ DOMAIN engine' \subseteq DOMAIN queue'
                   /\ pc'[p] = "d_drop" => arg'[p].id \notin DOMAIN engine'
                   /\ pc'[p] \in Handling => arg'[p].id \in DOMAIN queue'
                   /\ pc'[p] = "g_add" => obj.there
                   /\ pc'[p] \in {"g_remove", "d_load", "d_remove", "d_drop"} => ~obj.there
                   /\ ~obj.there => \A k \in DOMAIN queue' :
                         k \in todo'[p] \/ (pc'[p] \in Handling /\ arg'[p].id = k)
                   /\ pc'[p] = "idle" /\ ~obj.there => DOMAIN queue' = {}
<1>1. /\ UNCHANGED objectVars
      /\ ~cstale /\ ~due /\ ~rec.active /\ Idle /\ pc[R] = "idle"
      /\ p \in M!Threads /\ p # R /\ R \in M!Threads
      /\ \A t \in M!Threads \ {p} : pc[t] = "idle" /\ pc'[t] = "idle" /\ arg'[t] = arg[t]
      BY PassFrame, ManagerShapes
<1>2. cache = obj /\ {} # {Hpa} /\ (Hpa \in {Hpa})
      BY <1>1 DEF Typed, CopyInv
<1>3. /\ DOMAIN engine \subseteq DOMAIN queue
      /\ pc[p] = "d_drop" => i \notin DOMAIN engine
      /\ pc[p] \in Handling => i \in DOMAIN queue
      /\ pc[p] = "g_add" => obj.there
      /\ pc[p] \in {"g_remove", "d_load", "d_remove", "d_drop"} => ~obj.there
      /\ pc[p] # "idle" /\ ~obj.there =>
            \A k \in DOMAIN queue : k \in todo[p] \/ (pc[p] \in Handling /\ i = k)
      BY <1>1 DEF CalmPass, CalmTables
<1>4. Good
  <2>1. ASSUME NEW id \in AllIds, M!GCVisit(p, id)
        PROVE  Good
    <3>1. /\ pc[p] = "g_range" /\ todo'[p] = todo[p] \ {id} /\ UNCHANGED <<queue, engine>>
          /\ IF id \in DOMAIN queue THEN arg'[p].id = id /\ pc'[p] = "g_find"
                                    ELSE pc'[p] = "g_range"
          BY <2>1, ManagerShapes DEF M!GCVisit, M!Goto, Typed, M!TypeOK
    <3> QED BY <1>3, <3>1 DEF Handling
  <2>2. CASE M!GCEnd(p)
    <3>1. /\ pc[p] = "g_range" /\ todo[p] = {} /\ todo' = todo /\ UNCHANGED <<queue, engine>>
          /\ pc'[p] = "idle"
          BY <2>2, ManagerShapes DEF M!GCEnd, M!Goto
    <3> QED BY <1>3, <3>1 DEF Handling
  <2>3. CASE M!GCFind(p) \/ M!GCGetNotFound(p)
    <3>1. /\ UNCHANGED <<queue, engine, arg, todo>>
          /\ \/ pc[p] = "g_find" /\ pc'[p] = "g_get"
             \/ pc[p] = "g_get" /\ ~obj.there /\ pc'[p] \in {"g_remove", "d_load"}
          BY <1>2, <2>3, ManagerShapes DEF M!GCFind, M!GCGetNotFound, M!Goto, Typed, M!TypeOK, M!Jobs
    <3> QED BY <1>3, <3>1 DEF Handling
  <2>4. CASE M!GCGetExists(p)
    <3>1. /\ UNCHANGED <<queue, engine, todo>> /\ pc[p] = "g_get" /\ obj.there
          /\ pc'[p] = "g_range" \/ (pc'[p] = "g_add" /\ arg' = arg)
          BY <1>1, <1>2, <2>4, ManagerShapes DEF M!GCGetExists, M!ContinueIf, M!Return, M!Goto,
             M!Jobs
    <3> QED BY <1>3, <3>1 DEF Handling
  <2>5. CASE M!GCAdd(p)
    <3>1. /\ UNCHANGED <<queue, todo>> /\ pc[p] = "g_add" /\ pc'[p] = "g_range"
          /\ engine' \in {engine, M!Table!Scheduled(engine, arg[p])}
          BY <1>1, <2>5, ManagerShapes DEF M!GCAdd, M!AddJob, M!Return, M!Goto
    <3>2. DOMAIN M!Table!Scheduled(engine, arg[p]) = DOMAIN engine \cup {i}
          BY DEF M!Table!Scheduled
    <3> QED BY <1>3, <3>1, <3>2 DEF Handling
  <2>6. CASE M!GCRemove(p) \/ M!DeleteRemove(p)
    <3>1. /\ UNCHANGED <<queue, arg, todo>>
          /\ pc[p] \in {"g_remove", "d_remove"}
          /\ pc'[p] \in {"d_load", "d_drop"}
          /\ engine' = M!Table!Unscheduled(engine, i)
          BY <2>6, ManagerShapes DEF M!GCRemove, M!DeleteRemove, M!RemoveJob, M!Goto
    <3>2. DOMAIN engine' = DOMAIN engine \ {i}
          BY <3>1 DEF M!Table!Unscheduled
    <3> QED BY <1>3, <3>1, <3>2 DEF Handling
  <2>7. CASE M!DeleteLoad(p)
    <3>1. pc[p] = "d_load" /\ UNCHANGED <<queue, engine, todo>>
          BY <2>7 DEF M!DeleteLoad
    <3>2. pc'[p] = "d_remove" /\ arg' = arg
          BY <1>3, <2>7, <3>1, ManagerShapes DEF M!DeleteLoad, M!ContinueIf, M!Goto, Handling
    <3> QED BY <1>3, <3>1, <3>2 DEF Handling
  <2>8. CASE M!DeleteDrop(p)
    <3>1. /\ UNCHANGED <<engine, todo>> /\ pc[p] = "d_drop" /\ pc'[p] = "g_range"
          /\ queue' = M!Table!Unscheduled(queue, i)
          BY <1>1, <2>8, ManagerShapes DEF M!DeleteDrop, M!Return, M!Goto
    <3>2. DOMAIN queue' = DOMAIN queue \ {i}
          BY <3>1 DEF M!Table!Unscheduled
    <3> QED BY <1>3, <3>1, <3>2 DEF Handling
  <2> HIDE DEF Good
  <2> QED BY <2>1, <2>2, <2>3, <2>4, <2>5, <2>6, <2>7, <2>8 DEF GarbageCollect, M!Collect
<1>5. UNCHANGED <<obj, cstale, due, rec, run>> /\ pc'[R] = "idle" /\ Idle'
      BY <1>1 DEF objectVars, Idle
<1>6. \A q \in Passes \ {p} : pc'[q] = "idle"
      BY <1>1, ManagerShapes
<1>7. Turn'
      BY <1>1, <1>5, <1>6 DEF Turn, Idle, PassesIdle
<1>8. CalmPass'
      BY <1>4, <1>5, <1>6 DEF CalmPass, Handling
<1>9. CalmTables'
      BY <1>1, <1>4, <1>5 DEF CalmTables
<1>10. NoIds'
       BY <1>4, <1>5 DEF NoIds, CallPCs
<1>11. Known'
  <2>1. PassesIdle' => pc'[p] = "idle"
        BY DEF PassesIdle
  <2> QED BY <1>1, <1>4, <1>5, <2>1, RestingNames DEF Known, Covers, Idle, CallPCs
<1> QED BY <1>7, <1>8, <1>9, <1>10, <1>11

-------------------------------------------------------------------------------
\* All steps.

LEMMA CalmInit == Init => CalmInv
<1> SUFFICES ASSUME Init PROVE CalmInv
    OBVIOUS
<1>1. /\ obj.there /\ obj.conds = {} /\ ~cstale /\ due /\ rec = Resting
      /\ run = [i \in AllIds |-> NoRun]
      /\ DOMAIN queue = {} /\ DOMAIN engine = {} /\ \A t \in M!Threads : pc[t] = "idle"
      BY DEF Init, Created, Absent, M!Init
<1>2. pc[R] = "idle" /\ \A p \in Passes : pc[p] = "idle"
      BY <1>1 DEF M!Threads
<1>3. Turn
      BY <1>1, <1>2, RestingNames, RestingFields DEF Turn, Idle, PassesIdle
<1>4. CalmPass /\ CalmTables
      BY <1>1, <1>2 DEF CalmPass, CalmTables, Handling
<1>5. NoIds
      BY <1>1, <1>2, RestingNames DEF NoIds, Marks, CallPCs
<1>6. Known
      BY <1>1, <1>2, RestingNames DEF Known, Covers, CallPCs, Named
<1>7. OneJob
      BY NamesInit DEF OneJobPerId, OneJob
<1> QED BY <1>3, <1>4, <1>5, <1>6, <1>7, ListsInit DEF CalmInv, TurnsInv

LEMMA TurnsStep ==
    ASSUME Quiet, Before, [Next]_vars
    PROVE  TurnsInv'
<1>1. CASE Settled /\ Crash
      BY <1>1, CrashTurns
<1>2. ASSUME Settled, NEW p \in Passes, Tick(p)
      PROVE  TurnsInv'
  <2>1. Typed /\ StatusInv /\ UNCHANGED <<obj, cstale, rec, run, due>> /\ M!GCStart(p)
        BY <1>2 DEF Before, Tick, objectVars
  <2> QED BY <1>2, <2>1, SettledFacts, TickTurns
<1>3. CASE \/ Settled /\ (User \/ Resync \/ (\E id \in AllIds : Fire(id)))
           \/ Sync \/ UNCHANGED vars \/ \E id \in AllIds : Result(id)
      BY <1>3, UserTurns, NoticeTurns, FireTurns, ResultTurns
<1>4. CASE Read \/ ReadGone \/ WorkerStep \/ Skip \/ Update
      BY <1>4, ReadTurns, ReadGoneTurns, WorkerKeepsTurns, EndTurns DEF Quiet
<1>5. CASE \E p \in Passes : GarbageCollect(p)
      BY <1>5, PassTurns
<1> QED BY <1>1, <1>2, <1>3, <1>4, <1>5, Kinds DEF Before, CalmInv, TurnsInv

LEMMA CalmStep ==
    ASSUME Quiet
    PROVE  Typed /\ StatusInv /\ CalmInv /\ [Next]_vars => CalmInv'
<1> SUFFICES ASSUME Before, [Next]_vars PROVE CalmInv'
    BY DEF Before
<1> QED BY TurnsStep, OneJobKept, ListsStep DEF Before, CalmInv, Quiet

LEMMA AlwaysCalm ==
    ASSUME Quiet
    PROVE  Spec => []Before
<1>1. Typed /\ StatusInv /\ CalmInv /\ [Next]_vars => CalmInv'
      BY CalmStep
<1> QED BY <1>1, CalmInit, AlwaysStatus, PTL DEF Spec, Before

\* While the environment waits for the controller, names of jobs are distinct and updates
\* fail but by conflicts: nothing is scheduled that the status does not name, whatever
\* edits, deletions, crashes and lost results came in between (controller.go:91-205,
\* cronmanager.go:221-268).
THEOREM NothingOrphaned ==
    ASSUME Quiet
    PROVE  Spec => []NoOrphan
<1>1. ASSUME Before, Settled, NEW i \in DOMAIN engine
      PROVE  \E c \in obj.conds : c.id = i
  <2>1. ~cstale /\ ~due /\ ~rec.active /\ PassesIdle /\ pc[R] = "idle"
        BY <1>1, SettledFacts DEF Before
  <2>2. i \in DOMAIN queue
        BY <1>1, <2>1 DEF Before, CalmInv, TurnsInv, CalmTables
  <2> QED BY <1>1, <2>1, <2>2 DEF Before, CalmInv, TurnsInv, Known, Covers
<1>2. Before => NoOrphan
      BY <1>1 DEF NoOrphan
<1> QED BY <1>2, AlwaysCalm, PTL

-------------------------------------------------------------------------------
(***************************************************************************)
(* Run-once jobs.  A job that has run is not launched again: its condition *)
(* is final wherever there is one, and a reconcile deletes it from the     *)
(* manager before the controller rests.                                    *)
(***************************************************************************)

\* The conditions conds say that job i is done.
Done(i, conds) == \A c \in conds : c.id = i => c.job.once /\ c.state \in Final

\* Job i has run.
RanInv(i) ==
    /\ run[i].at = "running" => run[i].job.work.job.once
    /\ \A k \in AllIds : Done(i, run[k].conds)
    /\ run[i] = NoRun => Done(i, obj.conds)
    /\ rec.active => Done(i, rec.inst.conds) /\ Done(i, rec.kept)
    /\ pc[R] \in CallPCs => arg[R].id # i
    /\ i \in DOMAIN queue /\ rec.active =>
          Deleting(i) \/ \E c \in rec.kept : c.id = i /\ c.job \in rec.jobs

OnceInv ==
    /\ \A i \in AllIds : ran[i] <= 1
    /\ ran[NoId] = 0
    /\ \A i \in AllIds : ran[i] = 1 => RanInv(i)
    /\ \A p \in Passes : pc[p] # "idle" => ~obj.there
    /\ ~rec.active /\ Idle /\ (~obj.there \/ (~cstale /\ ~due)) =>
          \A i \in DOMAIN queue : ran[i] = 0

\* The circumstances: no result is lost, and passes are started only by reconciles of
\* an object that is gone.
QuietOnce == Quiet /\ Budget["patches"] = 0 /\ Budget["ticks"] = 0

\* A new version of the object.
LEMMA VersionedOnce ==
    ASSUME Before, OnceInv, NEW o, Versioned(o), UNCHANGED <<cache, due, ran, managerVars>>,
           ~rec.active, PassesIdle, pc[R] = "idle",
           \A i \in AllIds : run'[i] = NoRun,
           \A i \in AllIds : ran[i] = 1 => Done(i, o.conds),
           o.there \/ \A i \in DOMAIN queue : ran[i] = 0
    PROVE  OnceInv'
<1>1. ~rec'.active /\ obj' = o /\ cstale'
      BY RecFields DEF Before, Typed, CopyInv, Versioned, Fields
<1>2. UNCHANGED <<queue, pc, arg, ran>>
      BY DEF managerVars
<1>3. ASSUME NEW i \in AllIds, ran[i] = 1
      PROVE  RanInv(i)'
      BY <1>1, <1>2, <1>3, RestingNames DEF RanInv, Done, CallPCs
<1>4. \A p \in Passes : pc'[p] = "idle"
      BY <1>2 DEF PassesIdle
<1> QED BY <1>1, <1>2, <1>3, <1>4 DEF OnceInv

LEMMA UserOnce ==
    ASSUME Before, OnceInv, Settled, User
    PROVE  OnceInv'
<1>1. Typed /\ StatusInv /\ Shapes
      BY DEF Before, Typed, CopyInv
<1>2. ~cstale /\ ~due /\ ~rec.active /\ Idle /\ PassesIdle /\ pc[R] = "idle"
      BY <1>1, SettledFacts
<1>3. /\ \A i \in DOMAIN queue : ran[i] = 0
      /\ \A i \in AllIds : ran[i] = 1 => Done(i, obj.conds)
      BY <1>2 DEF OnceInv, RanInv, Idle
<1>4. ASSUME NEW o, Versioned(o), UNCHANGED <<cache, due, run, ran, managerVars>>,
             o.conds \subseteq obj.conds
      PROVE  OnceInv'
  <2>1. \A i \in AllIds : ran[i] = 1 => Done(i, o.conds)
        BY <1>3, <1>4 DEF Done
  <2> QED BY <1>2, <1>3, <1>4, <2>1, VersionedOnce DEF Idle
<1>5. ASSUME NEW jobs, NEW params, UserEdit(jobs, params)
      PROVE  OnceInv'
  <2> DEFINE o == [obj EXCEPT !.jobs = jobs, !.params = params]
  <2>1. o.conds = obj.conds
        BY <1>1 DEF Shapes, Absent
  <2>2. Versioned(o) /\ UNCHANGED <<cache, due, run, ran, managerVars>>
        BY <1>5 DEF UserEdit
  <2> HIDE DEF o
  <2> QED BY <1>4, <2>1, <2>2
<1>6. CASE UserDelete
  <2>1. Versioned(Absent) /\ UNCHANGED <<cache, due, run, ran, managerVars>>
        BY <1>6 DEF UserDelete
  <2> QED BY <1>4, <2>1, RestingNames
<1>7. ASSUME NEW jobs, NEW params, UserCreate(jobs, params)
      PROVE  OnceInv'
  <2>1. Created(jobs, params).conds = {}
        BY DEF Created, Absent
  <2>2. Versioned(Created(jobs, params)) /\ UNCHANGED <<cache, due, run, ran, managerVars>>
        BY <1>7 DEF UserCreate
  <2> QED BY <1>4, <2>1, <2>2
<1> QED BY <1>5, <1>6, <1>7 DEF User

\* Notices of changes, and reconciles of an object that is gone.
LEMMA NoticeOnce ==
    ASSUME Before, OnceInv, Sync \/ (Settled /\ Resync) \/ ReadGone \/ UNCHANGED vars
    PROVE  OnceInv'
<1> USE DEF Before, CalmInv, TurnsInv
<1>1. UNCHANGED <<obj, rec, run, ran, queue, arg>> /\ pc'[R] = pc[R]
  <2>1. CASE ReadGone
        BY <2>1, ManagerShapes DEF ReadGone, M!GCStart, M!Goto
  <2> QED BY <2>1 DEF Sync, Resync, vars, managerVars
<1>2. \A p \in Passes : pc'[p] # "idle" => ~obj.there
  <2>1. CASE ReadGone
        BY <2>1 DEF ReadGone, Popped, Turn, Typed, CopyInv
  <2> QED BY <2>1 DEF Sync, Resync, vars, managerVars, OnceInv
<1>3. obj.there /\ ~cstale' /\ ~due' /\ ~rec.active => ~cstale /\ ~due
      BY DEF Sync, Resync, Settled, ReadGone, Popped, vars, Turn, Typed, CopyInv
<1>4. \A i \in AllIds : RanInv(i) => RanInv(i)'
      BY <1>1 DEF RanInv, Deleting
<1> QED BY <1>1, <1>2, <1>3, <1>4 DEF OnceInv, Idle

\* A job that is launched while the controller rests has not run yet, or runs often.
LEMMA FireOnce ==
    ASSUME Before, OnceInv, Settled, NEW id \in AllIds, Fire(id)
    PROVE  OnceInv'
<1> USE DEF Before, CalmInv, TurnsInv
<1>1. /\ UNCHANGED <<obj, cstale, due, rec, queue, pc, arg>>
      /\ id \in DOMAIN engine
      /\ run'[id] = [at |-> "running", job |-> engine[id], conds |-> {}]
      /\ ran' = [ran EXCEPT ![id] = IF engine[id].work.job.once /\ @ < 2 THEN @ + 1 ELSE @]
      /\ \A i \in AllIds \ {id} : run'[i] = run[i]
      BY DEF Fire, Ran, managerVars, Typed, CTypes
<1>2. ~cstale /\ ~due /\ ~rec.active /\ Idle /\ PassesIdle /\ pc[R] = "idle"
      BY SettledFacts
<1>3. id \in DOMAIN queue
      BY <1>1, <1>2 DEF CalmTables
<1>4. ran[id] = 0 /\ id # NoId /\ ran \in [AllIds -> 0..2]
      BY <1>2, <1>3 DEF OnceInv, NoIds, Typed, CTypes
<1>5. /\ ran'[id] = 1 => engine[id].work.job.once
      /\ ran'[id] \in {0, 1}
      /\ \A i \in AllIds \ {id} : ran'[i] = ran[i]
      BY <1>1, <1>4
<1>6. run'[id] # NoRun /\ run'[id].conds = {} /\ run'[id].job = engine[id]
      BY <1>1, RestingNames
<1>7. \A i \in AllIds : run[i] = NoRun
      BY <1>2 DEF Idle
<1>8. ASSUME NEW i \in AllIds, ran'[i] = 1
      PROVE  RanInv(i)'
  <2>1. \A k \in AllIds : run'[k].conds = {}
        BY <1>1, <1>6, <1>7, RestingNames
  <2>2. run'[i].at = "running" => run'[i].job.work.job.once
        BY <1>1, <1>5, <1>6, <1>7, <1>8, RestingNames
  <2>3. run'[i] = NoRun => Done(i, obj.conds)
        BY <1>1, <1>5, <1>6, <1>7, <1>8 DEF OnceInv, RanInv
  <2> QED BY <1>1, <1>2, <2>1, <2>2, <2>3 DEF RanInv, Done, CallPCs
<1>9. ~Idle'
      BY <1>6 DEF Idle
<1> QED BY <1>1, <1>4, <1>5, <1>8, <1>9 DEF OnceInv, AllIds

\* A result is final, and reaches the status.
LEMMA ResultOnce ==
    ASSUME QuietOnce, Before, OnceInv, NEW id \in AllIds, Result(id)
    PROVE  OnceInv'
<1> USE DEF Before, CalmInv, TurnsInv
<1>1. run[id] # NoRun /\ run \in [AllIds -> Runs]
      BY RestingNames DEF Result, HandleResult, Patch, PatchLost, Typed, CTypes
<1>2. /\ ~cstale /\ ~due /\ ~rec.active /\ PassesIdle /\ pc[R] = "idle" /\ obj.there
      /\ cache = obj /\ \A i \in AllIds \ {id} : run[i] = NoRun
      BY <1>1 DEF Turn, Idle, StatusInv, WorkInv, Typed, CopyInv
<1>3. Shapes
      BY DEF Typed, CopyInv
<1>4. ~PatchLost(id)
  <2>1. budget["patches"] = 0
        BY HPAAssumption DEF QuietOnce, Typed, Spent
  <2> QED BY <1>2, <2>1 DEF PatchLost
<1>5. CASE Patch(id)
  <2> DEFINE o == [obj EXCEPT !.conds = run[id].conds]
  <2>1. o.conds = run[id].conds /\ o.there
        BY <1>2, <1>3 DEF Shapes, Absent
  <2>2. /\ Versioned(o) /\ UNCHANGED <<cache, due, ran, managerVars>>
        /\ \A i \in AllIds : run'[i] = NoRun
        BY <1>1, <1>2, <1>5 DEF Patch
  <2>3. \A i \in AllIds : ran[i] = 1 => Done(i, o.conds)
        BY <2>1 DEF OnceInv, RanInv
  <2> HIDE DEF o
  <2> QED BY <1>2, <2>1, <2>2, <2>3, VersionedOnce
<1>6. CASE HandleResult(id)
  <2> DEFINE j == run[id].job.work.job
             conds(state) == {c \in cache.conds : c.id # id /\ c.job.name # j.name}
                             \cup {[job |-> j, id |-> id, state |-> state]}
  <2>1. PICK state \in Final : run' = [run EXCEPT ![id] =
                                  [at |-> "patching", job |-> NoJob, conds |-> conds(state)]]
        BY <1>2, <1>6 DEF HandleResult
  <2>2. /\ UNCHANGED <<obj, cstale, due, rec, ran, queue, pc, arg>> /\ run[id].at = "running"
        BY <1>6 DEF HandleResult, managerVars
  <2>3. /\ run'[id].at = "patching" /\ run'[id].conds = conds(state)
        /\ \A i \in AllIds \ {id} : run'[i] = NoRun
        BY <1>1, <1>2, <2>1
  <2>4. ASSUME NEW i \in AllIds, ran[i] = 1
        PROVE  Done(i, conds(state))
    <3>1. i = id => j.once
          BY <2>2, <2>4 DEF OnceInv, RanInv
    <3>2. i # id => Done(i, cache.conds)
          BY <1>2, <2>4 DEF OnceInv, RanInv
    <3> QED BY <3>1, <3>2 DEF Done
  <2> HIDE DEF conds
  <2>5. ASSUME NEW i \in AllIds, ran[i] = 1
        PROVE  RanInv(i)'
    <3>1. \A k \in AllIds : Done(i, run'[k].conds)
          BY <2>3, <2>4, <2>5, RestingNames DEF Done
    <3>2. run'[i] = NoRun => Done(i, obj.conds)
          BY <1>2, <2>3, <2>5, RestingNames DEF OnceInv, RanInv
    <3> QED BY <1>2, <2>2, <2>3, <3>1, <3>2, RestingNames DEF RanInv, CallPCs, Done
  <2>6. ~Idle' /\ \A p \in Passes : pc'[p] = "idle"
        BY <1>2, <2>2, <2>3, RestingNames DEF Idle, PassesIdle
  <2> QED BY <2>2, <2>5, <2>6 DEF OnceInv
<1> QED BY <1>4, <1>5, <1>6 DEF Result

LEMMA CrashOnce ==
    ASSUME Before, OnceInv, Settled, Crash
    PROVE  OnceInv'
<1>1. /\ obj' = obj /\ ran' = ran /\ rec' = Resting
      /\ run' = [i \in AllIds |-> NoRun]
      /\ DOMAIN queue' = {} /\ \A t \in M!Threads : pc'[t] = "idle"
      BY DEF Crash, M!Restart
<1>2. pc'[R] = "idle" /\ \A p \in Passes : pc'[p] = "idle"
      BY <1>1 DEF M!Threads
<1>3. Idle
      BY SettledFacts DEF Before
<1>4. ASSUME NEW i \in AllIds, ran[i] = 1
      PROVE  RanInv(i)'
      BY <1>1, <1>2, <1>3, <1>4, RestingNames DEF OnceInv, RanInv, Idle, CallPCs, Done
<1> QED BY <1>1, <1>2, <1>4 DEF OnceInv

\* A pass has nothing to run: the object is gone.
LEMMA PassOnce ==
    ASSUME Before, OnceInv, NEW p \in Passes, GarbageCollect(p)
    PROVE  OnceInv'
<1> USE DEF Before
<1>1. /\ UNCHANGED objectVars
      /\ ~cstale /\ ~due /\ ~rec.active /\ Idle /\ pc[R] = "idle"
      /\ p \in M!Threads /\ p # R /\ R \in M!Threads
      /\ \A t \in M!Threads \ {p} : pc[t] = "idle" /\ pc'[t] = "idle" /\ arg'[t] = arg[t]
      BY PassFrame, ManagerShapes DEF CalmInv, TurnsInv
<1>2. pc[p] # "idle"
      BY DEF GarbageCollect, M!Collect, M!GCVisit, M!GCEnd, M!GCFind, M!GCGetNotFound,
         M!GCGetExists, M!GCRemove, M!GCAdd, M!DeleteLoad, M!DeleteRemove, M!DeleteDrop
<1>3. ~obj.there /\ ~cache.there
      BY <1>1, <1>2 DEF OnceInv, Typed, CopyInv
<1>4. ran' = ran
      BY <1>3 DEF GarbageCollect
<1>5. DOMAIN queue' \subseteq DOMAIN queue
  <2>1. M!DeleteDrop(p) => DOMAIN queue' = DOMAIN queue \ {arg[p].id}
        BY DEF M!DeleteDrop, M!Table!Unscheduled
  <2>2. M!Collect(p) \/ M!DeleteRemove(p) => queue' = queue
        BY DEF M!Collect, M!GCVisit, M!GCEnd, M!GCFind, M!GCGetNotFound, M!GCGetExists,
           M!GCRemove, M!GCAdd, M!DeleteLoad, M!DeleteRemove
  <2> QED BY <2>1, <2>2 DEF GarbageCollect
<1>6. UNCHANGED <<obj, cstale, due, rec, run>> /\ pc'[R] = "idle"
      BY <1>1 DEF objectVars
<1>7. ASSUME NEW i \in AllIds, RanInv(i)
      PROVE  RanInv(i)'
      BY <1>1, <1>6, <1>7 DEF RanInv, CallPCs, Done
<1> QED BY <1>1, <1>3, <1>4, <1>5, <1>6, <1>7 DEF OnceInv, Idle

\* What has run is either deleted by the reconcile or still to be handled by it.
LEMMA ReadOnce ==
    ASSUME Before, OnceInv, Read
    PROVE  OnceInv'
<1> USE DEF Before, CalmInv, TurnsInv
<1> DEFINE kept == {c \in cache.conds : ~GlobalChange /\ Unchanged(c)}
           expired == {c \in cache.conds : GlobalChange \/ Expired(c)}
<1>1. /\ rec'.active /\ rec'.jobs = cache.jobs /\ rec'.kept = kept
      /\ rec'.dels = {c.id : c \in expired} \ {NoId}
      /\ rec'.inst = [cache EXCEPT !.sparams = cache.params, !.conds = kept]
      /\ UNCHANGED <<obj, cstale, run, ran, queue, pc, arg>>
      /\ due /\ ~rec.active /\ cache.there /\ pc[R] = "idle"
      BY DEF Read, Resting, managerVars, Popped, StatusInv, WorkInv
<1>2. rec'.inst.conds = kept
      BY <1>1 DEF Typed, CopyInv, Shapes, Absent
<1>3. ~cstale /\ cache = obj /\ Idle
      BY <1>1 DEF Turn, Typed, CopyInv
<1>4. /\ \A c \in kept : c.job \in cache.jobs
      /\ \A c \in obj.conds : c \in kept \/ c \in expired
      /\ kept \subseteq obj.conds
      BY <1>3 DEF Expired, Unchanged
<1> HIDE DEF kept, expired
<1>5. ASSUME NEW i \in AllIds, ran[i] = 1
      PROVE  RanInv(i)'
  <2>1. Done(i, obj.conds) /\ \A k \in AllIds : Done(i, run[k].conds) /\ run[k].at # "running"
        BY <1>3, <1>5, RestingNames DEF OnceInv, RanInv, Idle
  <2>2. Done(i, kept)
        BY <1>4, <2>1 DEF Done
  <2>3. ASSUME i \in DOMAIN queue
        PROVE  Deleting(i)' \/ \E c \in rec'.kept : c.id = i /\ c.job \in rec'.jobs
    <3>1. PICK c \in obj.conds : c.id = i
          BY <1>1, <1>3, <2>3 DEF Known, Covers
    <3>2. i # NoId
          BY <1>5 DEF OnceInv
    <3> QED BY <1>1, <1>4, <3>1, <3>2 DEF Deleting
  <2> QED BY <1>1, <1>2, <2>1, <2>2, <2>3 DEF RanInv, CallPCs, Done
<1> QED BY <1>1, <1>5 DEF OnceInv

\* At the end nothing tracked has run.
LEMMA EndOnce ==
    ASSUME Before, OnceInv, Skip \/ Update
    PROVE  OnceInv'
<1> USE DEF Before, CalmInv, TurnsInv
<1>1. /\ rec.active /\ pc[R] = "idle" /\ rec.dels = {} /\ rec.jobs = {}
      /\ rec' = Resting /\ UNCHANGED <<run, ran, queue, pc, arg>>
      /\ obj'.conds \in {obj.conds, rec.inst.conds}
      BY DEF Skip, Update, Handled, reconcileVars, managerVars
<1>2. Idle /\ PassesIdle
      BY <1>1 DEF Turn
<1>3. \A i \in DOMAIN queue : ran[i] = 0
  <2>1. ASSUME NEW i \in AllIds, i \in DOMAIN queue, ran[i] = 1
        PROVE  FALSE
        BY <1>1, <2>1 DEF OnceInv, RanInv, Deleting
  <2> QED BY <2>1 DEF OnceInv, Typed, M!TypeOK, M!JobMap, CTypes
<1>4. ASSUME NEW i \in AllIds, ran[i] = 1
      PROVE  RanInv(i)'
      BY <1>1, <1>2, <1>4, RestingNames DEF OnceInv, RanInv, Idle, CallPCs, Done
<1>5. \A p \in Passes : pc'[p] = "idle"
      BY <1>1, <1>2 DEF PassesIdle
<1> QED BY <1>1, <1>3, <1>4, <1>5 DEF OnceInv

\* What is left to show of a step of the worker.
LEMMA WorkerOnce ==
    ASSUME Before, OnceInv, WorkerStep, rec'.kept = rec.kept,
           \A i \in AllIds : ran'[i] = ran[i] \/ (ran'[i] = 0 /\ i # NoId),
           \A i \in AllIds : ran'[i] = 1 =>
              /\ Done(i, rec'.inst.conds)
              /\ pc'[R] \in CallPCs => arg'[R].id # i
              /\ i \in DOMAIN queue' =>
                    Deleting(i)' \/ \E c \in rec.kept : c.id = i /\ c.job \in rec'.jobs
    PROVE  OnceInv'
<1>1. /\ rec.active /\ rec'.active /\ UNCHANGED <<obj, run>> /\ PassesIdle
      /\ \A p \in Passes : pc'[p] = pc[p]
      BY WorkerFrame DEF Before, CalmInv, TurnsInv
<1>2. ASSUME NEW i \in AllIds, ran'[i] = 1
      PROVE  RanInv(i)'
  <2>1. RanInv(i)
        BY <1>2 DEF OnceInv
  <2> QED BY <1>1, <1>2, <2>1 DEF RanInv, Done
<1>3. \A i \in AllIds : ran'[i] <= 1
      BY DEF OnceInv
<1> QED BY <1>1, <1>2, <1>3 DEF OnceInv, PassesIdle, AllIds

\* The worker goes on with the conditions and jobs it has.
LEMMA GoOnOnce ==
    ASSUME Before, OnceInv, WorkerStep, ran' = ran,
           rec'.kept = rec.kept, rec'.inst = rec.inst, rec'.jobs = rec.jobs,
           \A i \in DOMAIN queue' : i \in DOMAIN queue /\ (Deleting(i) => Deleting(i)'),
           pc'[R] \in CallPCs => pc[R] \in CallPCs /\ arg'[R] = arg[R]
    PROVE  OnceInv'
<1>1. rec.active
      BY WorkerFrame DEF Before, CalmInv, TurnsInv
<1> QED BY <1>1, WorkerOnce DEF OnceInv, RanInv

\* A reconcile is at a job of the spec: identifiers of jobs that have run are among the
\* conditions left of jobs still to be handled.
LEMMA RanKept ==
    ASSUME Before, OnceInv, NEW j, HandleJob(j), NEW i \in AllIds, ran[i] = 1
    PROVE  /\ i # NoId /\ Done(i, rec.inst.conds) /\ Done(i, rec.kept)
           /\ i \in DOMAIN queue => \E c \in rec.kept : c.id = i /\ c.job \in rec.jobs
BY DEF HandleJob, OnceInv, RanInv, Deleting

LEMMA InvalidOnce ==
    ASSUME Before, OnceInv, NEW j \in JobSpecs, JobInvalid(j)
    PROVE  OnceInv'
<1> USE DEF Before, CalmInv, TurnsInv
<1>1. /\ WorkerStep /\ rec.active /\ pc[R] = "idle"
      /\ UNCHANGED <<queue, pc, ran>> /\ rec.inst.params \notin ValidParams /\ HandleJob(j)
      BY DEF WorkerStep, JobInvalid, HandleJob, managerVars
<1>2. /\ rec'.kept = rec.kept
      /\ \A c \in rec'.inst.conds : c \in rec.inst.conds \/ c.id = NoId
  <2>1. /\ DOMAIN Taken(j) = Fields /\ Taken(j).inst = rec.inst /\ Taken(j).kept = rec.kept
        /\ DOMAIN rec.inst = DOMAIN Absent
        BY TakenFields DEF Typed, CopyInv, Shapes
  <2>2. PICK s : s = Recorded(Taken(j), j, NoId, "Failed")
        OBVIOUS
  <2>3. /\ s.kept = rec.kept
        /\ s.inst.conds = {c \in rec.inst.conds : c.job.name # j.name}
                          \cup {[job |-> j, id |-> NoId, state |-> "Failed"]}
        BY ONLY <2>1, <2>2 DEF Recorded, Fields, Absent
  <2> QED BY <2>2, <2>3 DEF JobInvalid
<1>3. ASSUME NEW i \in AllIds, ran[i] = 1
      PROVE  Done(i, rec'.inst.conds) /\ i \notin DOMAIN queue
  <2>1. /\ i # NoId /\ Done(i, rec.inst.conds)
        /\ i \in DOMAIN queue => \E c \in rec.kept : c.id = i
        BY <1>1, <1>3, RanKept
  <2>2. \A c \in rec.kept : c.id = NoId
        BY <1>1 DEF NoIds, Marks
  <2> QED BY <1>2, <2>1, <2>2 DEF Done
<1> QED BY <1>1, <1>2, <1>3, WorkerOnce DEF CallPCs

\* The identifier of a job that is done is deleted next.
LEMMA DoneOnce ==
    ASSUME Before, OnceInv, NEW j \in JobSpecs, JobDone(j)
    PROVE  OnceInv'
<1> USE DEF Before, CalmInv, TurnsInv
<1>1. /\ WorkerStep /\ pc[R] = "idle" /\ HandleJob(j) /\ UNCHANGED <<queue, pc, ran>>
      BY DEF WorkerStep, JobDone, HandleJob, managerVars
<1>2. PICK c \in KeptOf(j) : rec' = [Taken(j) EXCEPT !.dels = {c.id}]
      BY DEF JobDone
<1>3. /\ rec'.jobs = rec.jobs \ {j} /\ rec'.inst = rec.inst /\ rec'.kept = rec.kept
      /\ rec'.dels = {c.id}
  <2>1. /\ DOMAIN Taken(j) = Fields /\ Taken(j).inst = rec.inst /\ Taken(j).kept = rec.kept
        /\ Taken(j).jobs = rec.jobs \ {j}
        BY TakenFields DEF Typed, CopyInv
  <2> QED BY <1>2, <2>1 DEF Fields
<1>4. ASSUME NEW i \in AllIds, ran[i] = 1, i \in DOMAIN queue
      PROVE  Deleting(i)' \/ \E d \in rec.kept : d.id = i /\ d.job \in rec'.jobs
  <2>1. PICK d \in rec.kept : d.id = i /\ d.job \in rec.jobs
        BY <1>1, <1>4, RanKept
  <2>2. d.job = j => d = c
        BY DEF KeptOf, Known, Named
  <2> QED BY <1>3, <2>1, <2>2 DEF Deleting
<1>5. \A i \in AllIds : ran[i] = 1 => Done(i, rec.inst.conds)
      BY <1>1, RanKept
<1> QED BY <1>1, <1>3, <1>4, <1>5, WorkerOnce DEF CallPCs

\* A job goes to the manager again only while it has not run.
LEMMA CreateOnce ==
    ASSUME DistinctNames, Before, OnceInv, NEW j \in JobSpecs, JobCreate(j)
    PROVE  OnceInv'
<1> USE DEF Before, CalmInv, TurnsInv
<1>1. /\ WorkerStep /\ rec.active /\ HandleJob(j) /\ j \in rec.jobs /\ rec' = Taken(j)
      BY DEF WorkerStep, JobCreate, HandleJob
<1>2. PICK id \in AllIds :
         /\ \/ KeptOf(j) = {} /\ id \in Ids /\ ran' = [ran EXCEPT ![id] = 0]
            \/ /\ \E c \in KeptOf(j) : c.id = id /\ ~(j.once /\ c.state \in Final)
               /\ ran' = ran
         /\ M!CreateLoad([id |-> id, work |-> [job |-> j, params |-> rec.inst.params]])
      BY DEF JobCreate
<1>3. rec'.jobs = rec.jobs \ {j} /\ rec'.inst = rec.inst /\ rec'.kept = rec.kept
      BY <1>1, TakenFields DEF Typed, CopyInv
<1>4. queue' = queue /\ arg'[R].id = id
      BY <1>2, ManagerShapes DEF M!CreateLoad
<1>5. /\ \A i \in AllIds \ {id} : ran'[i] = ran[i]
      /\ ran'[id] = ran[id] \/ (ran'[id] = 0 /\ id # NoId)
      BY <1>2, HPAAssumption DEF Typed, CTypes
<1>6. ran'[id] # 1
  <2>1. CASE KeptOf(j) = {}
        BY <1>2, <2>1 DEF Typed, CTypes
  <2>2. ASSUME NEW c \in KeptOf(j), c.id = id, ~(j.once /\ c.state \in Final), ran[id] = 1
        PROVE  FALSE
    <3>1. c \in rec.kept /\ c.job.name = j.name /\ c.job.once /\ c.state \in Final
          BY <1>1, <2>2, RanKept DEF KeptOf, Done
    <3>2. c.job = j
          BY <1>1, <3>1 DEF StatusInv, InstInv, DistinctNames, Distinct, ListsInv, Typed, CTypes,
             RecTypes
    <3> QED BY <2>2, <3>1, <3>2
  <2> QED BY <1>2, <2>1, <2>2
<1>7. ASSUME NEW i \in AllIds, ran[i] = 1, i # id, i \in DOMAIN queue
      PROVE  \E c \in rec.kept : c.id = i /\ c.job \in rec'.jobs
  <2>1. PICK d \in rec.kept : d.id = i /\ d.job \in rec.jobs
        BY <1>1, <1>7, RanKept
  <2>2. d.job # j
        BY <1>2, <1>7, <2>1 DEF KeptOf, Known, Named
  <2> QED BY <1>3, <2>1, <2>2
<1>8. \A i \in AllIds : ran[i] = 1 => Done(i, rec.inst.conds)
      BY <1>1, RanKept
<1> QED BY <1>1, <1>3, <1>4, <1>5, <1>6, <1>7, <1>8, WorkerOnce

\* What a call records and tracks has not run.
LEMMA RecordOnce ==
    ASSUME Before, OnceInv, WorkerStep, pc[R] \in CallPCs, pc'[R] = "idle", ran' = ran,
           \A i \in DOMAIN queue' : i \in DOMAIN queue \/ i = arg[R].id,
           NEW state, rec' = Recorded(rec, arg[R].work.job, arg[R].id, state)
    PROVE  OnceInv'
<1>1. rec.active
      BY WorkerFrame DEF Before, CalmInv, TurnsInv
<1>2. /\ rec'.jobs = rec.jobs /\ rec'.kept = rec.kept /\ rec'.dels = rec.dels
      /\ \A c \in rec'.inst.conds : c \in rec.inst.conds \/ c.id = arg[R].id
      BY RecordedFields DEF Before
<1>3. ASSUME NEW i \in AllIds, ran[i] = 1
      PROVE  /\ Done(i, rec'.inst.conds)
             /\ i \in DOMAIN queue' =>
                   Deleting(i)' \/ \E c \in rec.kept : c.id = i /\ c.job \in rec'.jobs
  <2>1. RanInv(i)
        BY <1>3 DEF OnceInv
  <2>2. i # arg[R].id
        BY <2>1 DEF RanInv
  <2>3. Deleting(i) => Deleting(i)'
        BY <1>2 DEF Deleting, CallPCs
  <2> QED BY <1>1, <1>2, <2>1, <2>2, <2>3 DEF RanInv, Done
<1> QED BY <1>2, <1>3, WorkerOnce DEF CallPCs

LEMMA DeleteOnce ==
    ASSUME Before, OnceInv, NEW id \in AllIds, DeleteOne(id)
    PROVE  OnceInv'
<1> USE DEF Before
<1>1. /\ WorkerStep /\ ran' = ran /\ pc[R] = "idle"
      /\ rec'.dels = rec.dels \ {id} /\ rec'.jobs = rec.jobs /\ rec'.inst = rec.inst
      /\ rec'.kept = rec.kept
      BY RecFields DEF WorkerStep, DeleteOne, Typed, CopyInv, Fields
<1>2. /\ queue' = queue
      /\ \/ pc'[R] = "d_remove" /\ arg'[R].id = id
         \/ pc'[R] = "idle" /\ id \notin DOMAIN queue
      BY <1>1, ManagerShapes DEF DeleteOne, M!CallDelete, M!Goto, managerVars
<1>3. \A i \in DOMAIN queue : Deleting(i) => Deleting(i)'
      BY <1>1, <1>2 DEF Deleting
<1> QED BY <1>1, <1>2, <1>3, GoOnOnce DEF CallPCs

LEMMA WorkerKeepsOnce ==
    ASSUME DistinctNames, Before, OnceInv, WorkerStep
    PROVE  OnceInv'
<1>1. CASE Submit \/ Refuse \/ Compare \/ ManagerStep
      BY <1>1, CallMoves, RecordOnce, GoOnOnce DEF Continues, Records
<1> QED BY <1>1, DeleteOnce, InvalidOnce, DoneOnce, CreateOnce DEF WorkerStep

LEMMA OnceInit == Init => OnceInv
<1> SUFFICES ASSUME Init PROVE OnceInv
    OBVIOUS
<1>1. /\ ran = [i \in AllIds |-> 0] /\ NoId \in AllIds /\ DOMAIN queue = {}
      /\ \A p \in Passes : pc[p] = "idle"
      BY DEF Init, M!Init, M!Threads, AllIds
<1> QED BY <1>1 DEF OnceInv

LEMMA OnceStep ==
    ASSUME QuietOnce, Before, OnceInv, [Next]_vars
    PROVE  OnceInv'
<1>1. CASE Settled /\ (User \/ Resync \/ (\E id \in AllIds : Fire(id)) \/ Crash)
      BY <1>1, UserOnce, NoticeOnce, FireOnce, CrashOnce
<1>2. ~\E p \in Passes : Tick(p)
  <2>1. budget["ticks"] = 0
        BY HPAAssumption DEF QuietOnce, Before, Typed, Spent
  <2> QED BY <2>1 DEF Tick, Spend
<1>3. CASE Sync \/ Read \/ ReadGone \/ WorkerStep \/ Skip \/ Update \/ UNCHANGED vars
      BY <1>3, NoticeOnce, ReadOnce, EndOnce, WorkerKeepsOnce DEF QuietOnce, Quiet
<1>4. CASE (\E id \in AllIds : Result(id)) \/ (\E p \in Passes : GarbageCollect(p))
      BY <1>4, ResultOnce, PassOnce
<1> QED BY <1>1, <1>2, <1>3, <1>4, Kinds DEF QuietOnce, Before, CalmInv, TurnsInv

\* And while no result is lost and the watchdog's timer does not run (its passes run jobs
\* that are late themselves and report to nobody): a run-once job runs once
\* (types.go:38, controller.go:152-160, cronmanager.go:93-126).
THEOREM RunsAtMostOnce ==
    ASSUME QuietOnce
    PROVE  Spec => []RunsOnce
<1>1. Before /\ OnceInv /\ [Next]_vars => OnceInv'
      BY OnceStep
<1>2. Spec => []Before
      BY AlwaysCalm DEF QuietOnce
<1>3. OnceInv => RunsOnce
      BY DEF OnceInv, RunsOnce
<1> QED BY <1>1, <1>2, <1>3, OnceInit, PTL DEF Spec

-------------------------------------------------------------------------------
(***************************************************************************)
(* What is scheduled.  While the object is there, queue and engine hold    *)
(* the same work (TableInv), with the parameters of the status or, but for *)
(* what is about to be deleted, of the worker's instance; and every job    *)
(* that a condition names is tracked.                                      *)
(***************************************************************************)

ParamsInv ==
    /\ obj.there /\ ~rec.active => \A i \in DOMAIN queue : queue[i].work.params = obj.sparams
    /\ rec.active =>
          \A i \in DOMAIN queue : Deleting(i) \/ queue[i].work.params = rec.inst.params
    /\ pc[R] \in CallPCs => arg[R].work.params = rec.inst.params /\ rec.dels = {}

\* Conditions conds name tracked jobs only, but for those that need not be.
Tracks(conds) == \A c \in conds : Scheduling(c.job) /\ c.id # NoId => c.id \in DOMAIN queue

TracksInv ==
    /\ obj.there /\ AtRest => Tracks(obj.conds)
    /\ rec.active =>
          \A c \in rec.inst.conds :
              Scheduling(c.job) /\ c.id # NoId /\ c.job \notin rec.jobs /\ ~Calling(c.job) =>
                  c.id \in DOMAIN queue /\ ~Deleting(c.id)

\* A pass holds what is tracked.
PassWork ==
    \A p \in Passes :
        pc[p] \in {"g_find", "g_get", "g_add"} => arg[p].work = queue[arg[p].id].work

WorksInv ==
    /\ obj.there => TableInv /\ PassInv /\ PassWork
    /\ ParamsInv /\ TracksInv
    /\ GoneInv

\* Steps between reconciles that leave the tables alone.
LEMMA RestWorks ==
    ASSUME Before, WorksInv, GoneInv', UNCHANGED <<queue, engine>>,
           ~rec.active, ~rec'.active, pc[R] = "idle", pc'[R] = "idle",
           \A p \in Passes : pc'[p] \in {"idle", "g_range"} \/ (pc'[p] = pc[p] /\ arg'[p] = arg[p]),
           obj.there \/ PassesIdle,
           obj'.there /\ DOMAIN queue # {} => obj.there /\ obj'.sparams = obj.sparams,
           obj'.there /\ AtRest' => Tracks(obj'.conds)
    PROVE  WorksInv'
<1> USE DEF Before, CalmInv, TurnsInv
<1>1. DOMAIN engine \subseteq DOMAIN queue
      BY DEF CalmTables
<1>2. obj'.there => TableInv'
  <2>1. CASE DOMAIN queue = {}
        BY <2>1 DEF TableInv
  <2>2. CASE DOMAIN queue # {}
        BY <2>2 DEF WorksInv, TableInv
  <2> QED BY <2>1, <2>2
<1>3. obj'.there => PassInv' /\ PassWork'
      BY DEF WorksInv, PassInv, PassWork, PassesIdle
<1>4. ParamsInv' /\ TracksInv'
      BY DEF WorksInv, ParamsInv, TracksInv, CallPCs, Tracks
<1> QED BY <1>2, <1>3, <1>4 DEF WorksInv

LEMMA UserWorks ==
    ASSUME Before, WorksInv, GoneInv', Settled, User
    PROVE  WorksInv'
<1> USE DEF Before, CalmInv, TurnsInv
<1>1. ~rec.active /\ pc[R] = "idle" /\ PassesIdle /\ (~obj.there => DOMAIN queue = {})
      BY SettledFacts DEF Known
<1>2. Shapes
      BY DEF Typed, CopyInv
<1>3. ASSUME NEW o, Versioned(o), UNCHANGED managerVars,
             o.there /\ obj.there => o.sparams = obj.sparams
      PROVE  WorksInv'
  <2>1. obj' = o /\ cstale' /\ ~rec'.active
        BY <1>1, <1>3, RecFields DEF Typed, CopyInv, Versioned, Fields
  <2>2. UNCHANGED <<queue, engine, pc, arg>>
        BY <1>3 DEF managerVars
  <2> QED BY <1>1, <1>3, <2>1, <2>2, RestWorks DEF AtRest, PassesIdle
<1>4. ASSUME NEW jobs, NEW params, UserEdit(jobs, params)
      PROVE  WorksInv'
  <2> DEFINE o == [obj EXCEPT !.jobs = jobs, !.params = params]
  <2>1. o.sparams = obj.sparams
        BY <1>2 DEF Shapes, Absent
  <2>2. Versioned(o) /\ UNCHANGED managerVars
        BY <1>4 DEF UserEdit
  <2> HIDE DEF o
  <2> QED BY <1>3, <2>1, <2>2
<1>5. CASE UserDelete
      BY <1>3, <1>5, RestingNames DEF UserDelete
<1>6. ASSUME NEW jobs, NEW params, UserCreate(jobs, params)
      PROVE  WorksInv'
      BY <1>3, <1>6 DEF UserCreate
<1> QED BY <1>4, <1>5, <1>6 DEF User

\* The steps of the others, but for those of passes.
LEMMA OtherWorks ==
    ASSUME Before, WorksInv, GoneInv',
           \/ Settled /\ (Resync \/ (\E id \in AllIds : Fire(id)) \/ (\E p \in Passes : Tick(p)))
           \/ Sync \/ ReadGone \/ \E id \in AllIds : Result(id)
    PROVE  WorksInv'
<1> USE DEF Before, CalmInv, TurnsInv
<1>1. ~rec.active /\ pc[R] = "idle" /\ PassesIdle
  <2>1. CASE Settled
        BY <2>1, SettledFacts
  <2>2. CASE Sync \/ ReadGone
        BY <2>2 DEF Sync, ReadGone, Popped, Turn, StatusInv, WorkInv
  <2>3. ASSUME NEW id \in AllIds, Result(id)
        PROVE  ~rec.active /\ pc[R] = "idle" /\ PassesIdle
    <3>1. ~Idle
          BY <2>3, RestingNames DEF Result, HandleResult, Patch, PatchLost, Idle
    <3> QED BY <3>1 DEF Turn, StatusInv, WorkInv
  <2> QED BY <2>1, <2>2, <2>3
<1>2. CASE (Settled /\ Resync) \/ Sync
  <2>1. UNCHANGED <<obj, rec, queue, engine, pc, arg>> /\ due'
        BY <1>2 DEF Resync, Sync, managerVars
  <2> QED BY <1>1, <2>1, RestWorks DEF AtRest
<1>3. ASSUME NEW id \in AllIds, (Settled /\ Fire(id)) \/ HandleResult(id) \/ PatchLost(id)
      PROVE  WorksInv'
  <2>1. UNCHANGED <<obj, cstale, due, rec, queue, engine, pc, arg>>
        BY <1>3 DEF Fire, HandleResult, PatchLost, managerVars
  <2> QED BY <1>1, <2>1, RestWorks DEF AtRest, WorksInv, TracksInv
<1>4. ASSUME NEW id \in AllIds, Patch(id)
      PROVE  WorksInv'
  <2>1. /\ obj.there /\ obj'.sparams = obj.sparams /\ cstale' /\ ~rec'.active
        /\ UNCHANGED <<queue, engine, pc, arg>>
        BY <1>1, <1>4, RecFields DEF Patch, Versioned, managerVars, Typed, CopyInv, Shapes, Absent,
           Fields
  <2> QED BY <1>1, <2>1, RestWorks DEF AtRest
<1>5. ASSUME NEW p \in Passes, M!GCStart(p), UNCHANGED <<obj, cstale, rec>>,
             due' = due \/ ~obj.there
      PROVE  WorksInv'
  <2>1. /\ UNCHANGED <<queue, engine, arg>> /\ pc'[R] = pc[R]
        /\ \A q \in Passes : pc'[q] \in {pc[q], "g_range"}
        BY <1>5, ManagerShapes DEF M!GCStart, M!Goto
  <2> QED BY <1>1, <1>5, <2>1, RestWorks DEF AtRest, WorksInv, TracksInv, Tracks
<1>6. CASE ReadGone
  <2>1. ~cstale /\ ~obj.there
        BY <1>6 DEF ReadGone, Popped, Turn, Typed, CopyInv
  <2> QED BY <1>5, <1>6, <2>1 DEF ReadGone
<1>7. ASSUME NEW p \in Passes, Tick(p) PROVE WorksInv'
      BY <1>5, <1>7 DEF Tick, objectVars
<1> QED BY <1>2, <1>3, <1>4, <1>6, <1>7 DEF Result

LEMMA CrashWorks ==
    ASSUME Crash, GoneInv'
    PROVE  WorksInv'
<1>1. /\ due' = obj'.there /\ ~rec'.active /\ DOMAIN queue' = {}
      /\ \A p \in Passes : pc'[p] = "idle"
      BY RestingFields DEF Crash, M!Restart, M!Threads
<1>2. TableInv' /\ PassInv' /\ pc'[R] = "idle"
      BY ManagerStarts DEF Crash
<1> QED BY <1>1, <1>2 DEF WorksInv, PassWork, ParamsInv, TracksInv, AtRest, CallPCs

LEMMA ReadWorks ==
    ASSUME Before, WorksInv, GoneInv', Read
    PROVE  WorksInv'
<1> USE DEF Before, CalmInv, TurnsInv
<1> DEFINE kept == {c \in cache.conds : ~GlobalChange /\ Unchanged(c)}
           expired == {c \in cache.conds : GlobalChange \/ Expired(c)}
<1>1. /\ rec'.active /\ rec'.jobs = cache.jobs
      /\ rec'.dels = {c.id : c \in expired} \ {NoId}
      /\ rec'.inst = [cache EXCEPT !.sparams = cache.params, !.conds = kept]
      /\ UNCHANGED <<obj, queue, engine, pc, arg>>
      /\ due /\ ~rec.active /\ cache.there /\ pc[R] = "idle"
      BY DEF Read, Resting, managerVars, Popped, StatusInv, WorkInv
<1>2. rec'.inst.params = cache.params /\ rec'.inst.conds = kept
      BY <1>1 DEF Typed, CopyInv, Shapes, Absent
<1>3. cache = obj /\ obj.there
      BY <1>1 DEF Turn, Typed, CopyInv
<1>4. TableInv' /\ PassInv' /\ PassWork'
      BY <1>1, <1>3 DEF WorksInv, TableInv, PassInv, PassWork
<1>5. ASSUME NEW i \in DOMAIN queue
      PROVE  i \in rec'.dels \/ queue[i].work.params = rec'.inst.params
  <2>1. PICK c \in obj.conds : c.id = i
        BY <1>1, <1>3 DEF Known, Covers
  <2>2. CASE GlobalChange
        BY <1>1, <1>3, <2>1, <2>2 DEF NoIds
  <2>3. CASE ~GlobalChange
        BY <1>1, <1>2, <1>3, <2>3 DEF GlobalChange, WorksInv, ParamsInv
  <2> QED BY <2>2, <2>3
<1>6. \A c \in rec'.inst.conds : c.job \in rec'.jobs
      BY <1>1, <1>2 DEF Unchanged
<1> HIDE DEF kept, expired
<1>7. ParamsInv'
      BY <1>1, <1>5 DEF ParamsInv, Deleting, CallPCs
<1>8. TracksInv'
      BY <1>1, <1>6 DEF TracksInv, AtRest
<1> QED BY <1>4, <1>7, <1>8 DEF WorksInv

LEMMA EndWorks ==
    ASSUME Before, WorksInv, GoneInv', Skip \/ Update
    PROVE  WorksInv'
<1> USE DEF Before, CalmInv, TurnsInv
<1>1. /\ rec.active /\ pc[R] = "idle" /\ rec.dels = {} /\ rec.jobs = {}
      /\ UNCHANGED <<queue, engine, pc, arg>> /\ ~rec'.active /\ obj.there
      /\ obj'.there /\ obj'.conds = rec.inst.conds
      /\ obj'.conds # {} => obj'.sparams = rec.inst.params
      BY EndWrites, RestingFields
<1>2. TableInv' /\ PassInv' /\ PassWork'
      BY <1>1 DEF WorksInv, TableInv, PassInv, PassWork
<1>3. ASSUME NEW i \in DOMAIN queue
      PROVE  queue[i].work.params = obj'.sparams
  <2>1. ~Deleting(i)
        BY <1>1 DEF Deleting
  <2>2. \E c \in rec.inst.conds : c.id = i
        BY <1>1, <2>1 DEF Known
  <2> QED BY <1>1, <2>1, <2>2 DEF WorksInv, ParamsInv
<1>4. ParamsInv'
      BY <1>1, <1>3 DEF ParamsInv, CallPCs
<1>5. Tracks(rec.inst.conds)
      BY <1>1 DEF WorksInv, TracksInv, Tracks, Calling, CallPCs
<1>6. TracksInv'
      BY <1>1, <1>5 DEF TracksInv, Tracks
<1> QED BY <1>2, <1>4, <1>6 DEF WorksInv

\* A pass that sees the object changes nothing but what the engine has of a tracked job.
LEMMA PassWorks ==
    ASSUME Before, WorksInv, GoneInv', NEW p \in Passes, GarbageCollect(p)
    PROVE  WorksInv'
<1> USE DEF Before, CalmInv, TurnsInv
<1>1. /\ UNCHANGED <<obj, cstale, due, rec>>
      /\ ~cstale /\ ~rec.active /\ pc[R] = "idle" /\ pc'[R] = "idle"
      /\ p \in M!Threads /\ p # R
      /\ \A t \in M!Threads \ {p} : pc[t] = "idle" /\ pc'[t] = "idle" /\ arg'[t] = arg[t]
      BY PassFrame, ManagerShapes DEF objectVars
<1>2. CASE ~obj.there
      BY <1>1, <1>2 DEF WorksInv, ParamsInv, TracksInv, CallPCs
<1>3. CASE obj.there
  <2>1. TableInv /\ PassInv /\ PassWork
        BY <1>3 DEF WorksInv
  <2>2. M!Collect(p)
        BY <2>1 DEF GarbageCollect, M!DeleteRemove, M!DeleteDrop, PassInv
  <2>3. SpecsInv
        BY <1>1, <1>3 DEF SpecsInv, Typed, CopyInv
  <2>4. UNCHANGED queue /\ PassInv'
        BY <2>1, <2>2, <2>3, PassSteps
  <2>5. pc[p] = "g_add" =>
           \A i \in DOMAIN queue : i = arg[p].id => queue[i].work = arg[p].work
        BY <2>1 DEF PassWork
  <2>6. TableInv'
        BY <1>1, <2>1, <2>2, <2>3, <2>5, PassTable
  <2>7. pc'[p] \in {"g_find", "g_get", "g_add"} => arg'[p].work = queue[arg'[p].id].work
    <3>1. ASSUME NEW id \in AllIds, M!GCVisit(p, id), pc'[p] # "g_range"
          PROVE  arg'[p] = queue[id] /\ queue[id].id = id
          BY <1>1, <3>1, ManagerShapes DEF M!GCVisit
    <3>2. CASE ~\E id \in AllIds : M!GCVisit(p, id)
      <4>1. \/ pc'[p] \in {"idle", "g_range"}
            \/ pc[p] \in {"g_find", "g_get", "g_add"} /\ arg' = arg
        <5>1. pc[p] \notin {"g_remove", "d_load"}
              BY <2>1 DEF PassInv
        <5> QED BY <1>1, <2>2, <3>2, <5>1, ManagerShapes DEF M!Collect, M!GCEnd, M!GCFind,
                   M!GCGetNotFound, M!GCGetExists, M!GCRemove, M!GCAdd, M!DeleteLoad,
                   M!ContinueIf, M!Return, M!Goto
      <4> QED BY <2>1, <4>1 DEF PassWork
    <3> QED BY <3>1, <3>2
  <2>8. PassWork'
        BY <1>1, <2>4, <2>7, ManagerShapes DEF PassWork
  <2>9. ParamsInv' /\ TracksInv'
        BY <1>1, <2>4 DEF WorksInv, ParamsInv, TracksInv, Tracks, AtRest, CallPCs
  <2> QED BY <2>4, <2>6, <2>8, <2>9 DEF WorksInv
<1> QED BY <1>2, <1>3

-------------------------------------------------------------------------------
\* The worker's steps.

LEMMA WorkerTableKept ==
    ASSUME Before, WorksInv, WorkerStep
    PROVE  TableInv'
<1> USE DEF Before, CalmInv, TurnsInv
<1>1. rec.active /\ TableInv
      BY WorkerFrame DEF WorksInv
<1>2. \/ UNCHANGED managerVars
      \/ \E id \in AllIds, work \in Works : M!CreateLoad([id |-> id, work |-> work])
      \/ \E id \in AllIds : M!CallDelete(id)
      \/ M!Create \/ M!DeleteRemove(R) \/ M!DeleteDrop(R)
  <2>1. ASSUME NEW j \in JobSpecs, JobCreate(j)
        PROVE  \E id \in AllIds, work \in Works : M!CreateLoad([id |-> id, work |-> work])
    <3>1. [job |-> j, params |-> rec.inst.params] \in Works
          BY <1>1 DEF ListsInv, Works
    <3> QED BY <2>1, <3>1 DEF JobCreate
  <2> QED BY <2>1 DEF WorkerStep, DeleteOne, JobInvalid, JobDone, Submit, Refuse, Compare,
          ManagerStep, M!Create
<1>3. \A i \in DOMAIN queue : \A h \in Held : h.id = i => h.work.job = queue[i].work.job
  <2> SUFFICES ASSUME NEW i \in DOMAIN queue, NEW h \in Held, h.id = i
               PROVE  h.work.job = queue[i].work.job
      OBVIOUS
  <2>1. Names(i, h.work.job) /\ Names(i, queue[i].work.job)
        BY ManagerShapes DEF Names
  <2>2. i # NoId
        BY DEF NoIds
  <2> QED BY <2>1, <2>2 DEF OneJob
<1> QED BY <1>1, <1>2, <1>3, WorkerTable, ManagerStays DEF WorksInv, TableInv, managerVars

\* What is left to show of a step of the worker.
LEMMA WorkerWorks ==
    ASSUME Before, WorksInv, GoneInv', WorkerStep,
           rec'.inst.params = rec.inst.params,
           \A i \in DOMAIN queue' : Deleting(i)' \/ queue'[i].work.params = rec.inst.params,
           pc'[R] \in CallPCs => arg'[R].work.params = rec.inst.params /\ rec'.dels = {},
           \A c \in rec'.inst.conds :
              Scheduling(c.job) /\ c.id # NoId /\ c.job \notin rec'.jobs /\ ~Calling(c.job)' =>
                  c.id \in DOMAIN queue' /\ ~Deleting(c.id)'
    PROVE  WorksInv'
<1>1. rec'.active /\ PassesIdle /\ \A p \in Passes : pc'[p] = pc[p]
      BY WorkerFrame DEF Before, CalmInv, TurnsInv
<1>2. PassInv' /\ PassWork'
      BY <1>1 DEF PassInv, PassWork, PassesIdle
<1>3. ParamsInv' /\ TracksInv'
      BY <1>1 DEF ParamsInv, TracksInv, AtRest
<1> QED BY <1>2, <1>3, WorkerTableKept DEF WorksInv

LEMMA DeleteWorks ==
    ASSUME Before, WorksInv, GoneInv', NEW id \in AllIds, DeleteOne(id)
    PROVE  WorksInv'
<1>1. /\ WorkerStep /\ rec.active /\ pc[R] = "idle" /\ id \in rec.dels
      /\ rec'.dels = rec.dels \ {id} /\ rec'.jobs = rec.jobs /\ rec'.inst = rec.inst
      BY RecFields DEF WorkerStep, DeleteOne, Before, Typed, CopyInv, Fields
<1>2. /\ queue' = queue
      /\ \/ pc'[R] = "d_remove" /\ arg'[R].id = id
         \/ pc'[R] = "idle" /\ id \notin DOMAIN queue
      BY <1>1, ManagerShapes DEF DeleteOne, M!CallDelete, M!Goto, managerVars, Before
<1>3. /\ \A i : Deleting(i)' => Deleting(i)
      /\ \A i \in DOMAIN queue : Deleting(i) => Deleting(i)'
      BY <1>1, <1>2 DEF Deleting
<1>4. pc'[R] \notin CallPCs /\ pc[R] \notin CallPCs
      BY <1>1, <1>2 DEF CallPCs
<1> QED BY <1>1, <1>2, <1>3, <1>4, WorkerWorks DEF WorksInv, ParamsInv, TracksInv, Calling

\* A rejected job has no identifier, as all jobs have none then.
LEMMA InvalidWorks ==
    ASSUME Before, WorksInv, GoneInv', NEW j \in JobSpecs, JobInvalid(j)
    PROVE  WorksInv'
<1> USE DEF Before, CalmInv, TurnsInv
<1>1. /\ WorkerStep /\ rec.active /\ pc[R] = "idle" /\ rec.dels = {}
      /\ UNCHANGED <<queue, pc, arg>> /\ rec.inst.params \notin ValidParams
      BY DEF WorkerStep, JobInvalid, HandleJob, managerVars
<1>2. rec'.inst.params = rec.inst.params
  <2>1. /\ DOMAIN Taken(j) = Fields /\ Taken(j).inst = rec.inst /\ DOMAIN rec.inst = DOMAIN Absent
        BY TakenFields DEF Typed, CopyInv, Shapes
  <2>2. PICK s : s = Recorded(Taken(j), j, NoId, "Failed")
        OBVIOUS
  <2>3. s.inst.params = rec.inst.params
        BY ONLY <2>1, <2>2 DEF Recorded, Fields, Absent
  <2> QED BY <2>2, <2>3 DEF JobInvalid
<1>3. pc'[R] \notin CallPCs /\ \A i : ~Deleting(i)
      BY <1>1 DEF CallPCs, Deleting
<1>4. TurnsInv' /\ rec'.active
      BY <1>1, InvalidTurns, WorkerFrame
<1>5. \A c \in rec'.inst.conds : c.id = NoId
      BY <1>1, <1>2, <1>4 DEF NoIds, Marks
<1> QED BY <1>1, <1>2, <1>3, <1>5, WorkerWorks DEF WorksInv, ParamsInv

\* A job that is done is a run-once job, and nothing else has its identifier.
LEMMA DoneWorks ==
    ASSUME DistinctNames, Before, WorksInv, GoneInv', NEW j \in JobSpecs, JobDone(j)
    PROVE  WorksInv'
<1> USE DEF Before, CalmInv, TurnsInv
<1>1. /\ WorkerStep /\ rec.active /\ pc[R] = "idle" /\ rec.dels = {} /\ j \in rec.jobs /\ j.once
      /\ UNCHANGED <<queue, pc, arg>>
      BY DEF WorkerStep, JobDone, HandleJob, managerVars
<1>2. PICK c \in KeptOf(j) : rec' = [Taken(j) EXCEPT !.dels = {c.id}]
      BY DEF JobDone
<1>3. rec'.jobs = rec.jobs \ {j} /\ rec'.inst = rec.inst /\ rec'.dels = {c.id}
  <2>1. DOMAIN Taken(j) = Fields /\ Taken(j).inst = rec.inst /\ Taken(j).jobs = rec.jobs \ {j}
        BY TakenFields DEF Typed, CopyInv
  <2> QED BY <1>2, <2>1 DEF Fields
<1>4. c.job = j
  <2>1. j \in rec.inst.jobs
        BY <1>1 DEF Typed, CTypes, RecTypes
  <2> QED BY <1>1, <2>1, KeptJob
<1>5. /\ pc'[R] \notin CallPCs /\ pc[R] \notin CallPCs /\ \A i : ~Deleting(i)
      /\ \A i : Deleting(i)' => i = c.id
      BY <1>1, <1>3 DEF CallPCs, Deleting
<1>6. ASSUME NEW d \in rec.inst.conds, Scheduling(d.job), d.id # NoId
      PROVE  d.id # c.id /\ d.job # j
  <2>1. Names(d.id, d.job) /\ Names(c.id, j)
        BY <1>4 DEF Names, Listed, KeptOf
  <2> QED BY <1>1, <1>6, <2>1 DEF OneJob, Scheduling
<1>7. \A i \in DOMAIN queue : queue[i].work.params = rec.inst.params
      BY <1>1, <1>5 DEF WorksInv, ParamsInv
<1>8. ASSUME NEW d \in rec'.inst.conds, Scheduling(d.job), d.id # NoId, d.job \notin rec'.jobs
      PROVE  d.id \in DOMAIN queue' /\ ~Deleting(d.id)'
  <2>1. d \in rec.inst.conds /\ d.job \notin rec.jobs /\ ~Deleting(d.id)'
        BY <1>3, <1>5, <1>6, <1>8
  <2> QED BY <1>1, <1>5, <1>8, <2>1 DEF WorksInv, TracksInv, Calling
<1> QED BY <1>1, <1>3, <1>5, <1>7, <1>8, WorkerWorks

LEMMA CreateWorks ==
    ASSUME Before, WorksInv, GoneInv', NEW j \in JobSpecs, JobCreate(j)
    PROVE  WorksInv'
<1> USE DEF Before, CalmInv, TurnsInv
<1>1. /\ WorkerStep /\ rec.active /\ pc[R] = "idle" /\ rec.dels = {} /\ rec' = Taken(j)
      BY DEF WorkerStep, JobCreate, HandleJob
<1>2. /\ rec'.jobs = rec.jobs \ {j} /\ rec'.inst = rec.inst /\ rec'.dels = {}
      BY <1>1, TakenFields DEF Typed, CopyInv
<1>3. /\ queue' = queue /\ pc'[R] \in {"c_add", "c_again"}
      /\ arg'[R].work = [job |-> j, params |-> rec.inst.params]
      BY ManagerShapes DEF JobCreate, M!CreateLoad, M!Goto
<1>4. /\ \A i : ~Deleting(i) /\ ~Deleting(i)'
      /\ \A k : ~Calling(k) /\ (Calling(k)' <=> k = j)
      BY <1>1, <1>2, <1>3 DEF Deleting, Calling, CallPCs
<1>5. arg'[R].work.params = rec.inst.params
      BY <1>3
<1> QED BY <1>1, <1>2, <1>3, <1>4, <1>5, WorkerWorks DEF WorksInv, ParamsInv, TracksInv

\* In a call nothing is being deleted; what is not to be updated is tracked as it should be.
LEMMA GoOnWorks ==
    ASSUME Before, WorksInv, GoneInv', WorkerStep, Continues
    PROVE  WorksInv'
<1> USE DEF Before, CalmInv, TurnsInv
<1>1. rec.active /\ rec' = rec
      BY WorkerFrame DEF Continues
<1>2. \A i \in DOMAIN queue' : Deleting(i)' \/ queue'[i].work.params = rec.inst.params
      BY <1>1 DEF Continues, WorksInv, ParamsInv
<1>3. pc'[R] \in CallPCs => arg'[R].work.params = rec.inst.params /\ rec.dels = {}
      BY DEF Continues, WorksInv, ParamsInv
<1>4. ASSUME NEW c \in rec.inst.conds, Scheduling(c.job), c.id # NoId, c.job \notin rec.jobs,
             ~Calling(c.job)'
      PROVE  c.id \in DOMAIN queue' /\ ~Deleting(c.id)'
  <2>1. CASE Calling(c.job)
    <3>1. pc[R] \in CallPCs /\ pc'[R] \notin CallPCs
          BY <1>4, <2>1 DEF Continues, Calling
    <3>2. arg[R].id \in DOMAIN queue' /\ ~Deleting(c.id)'
          BY <3>1 DEF Continues, Deleting, CallPCs, WorksInv, ParamsInv
    <3>3. c \in KeptOf(arg[R].work.job)
          BY <1>1, <2>1 DEF Known, Calling, KeptOf
    <3>4. c.id = arg[R].id
          BY <3>1, <3>3 DEF Known
    <3> QED BY <3>2, <3>4
  <2>2. CASE ~Calling(c.job)
        BY <1>1, <1>4, <2>2 DEF Continues, WorksInv, TracksInv
  <2> QED BY <2>1, <2>2
<1> QED BY <1>1, <1>2, <1>3, <1>4, WorkerWorks

LEMMA RecordWorks ==
    ASSUME Before, WorksInv, GoneInv', WorkerStep, NEW state, Records(state)
    PROVE  WorksInv'
<1> USE DEF Before, CalmInv, TurnsInv
<1> DEFINE j == arg[R].work.job
           new == [job |-> j, id |-> arg[R].id, state |-> state]
<1>1. rec.active /\ pc[R] \in CallPCs /\ pc'[R] = "idle"
      BY WorkerFrame DEF Records
<1>2. /\ rec'.jobs = rec.jobs /\ rec'.dels = rec.dels
      /\ rec'.inst.params = rec.inst.params
      /\ rec'.inst.conds = {c \in rec.inst.conds : c.job.name # j.name} \cup {new}
      BY RecordedFields DEF Records
<1>3. arg[R].work.params = rec.inst.params /\ rec.dels = {}
      BY <1>1 DEF WorksInv, ParamsInv
<1>4. /\ \A i : ~Deleting(i) /\ ~Deleting(i)'
      /\ pc'[R] \notin CallPCs
      BY <1>1, <1>2, <1>3 DEF Deleting, CallPCs
<1>5. \A i \in DOMAIN queue' : queue'[i].work.params = rec.inst.params
      BY <1>1, <1>3, <1>4 DEF Records, WorksInv, ParamsInv
<1>6. ASSUME NEW c \in rec'.inst.conds, Scheduling(c.job), c.id # NoId, c.job \notin rec'.jobs
      PROVE  c.id \in DOMAIN queue'
  <2>1. CASE c = new
        BY <1>6, <2>1 DEF Records, Scheduling
  <2>2. CASE c \in rec.inst.conds /\ c.job.name # j.name
        BY <1>1, <1>2, <1>6, <2>2 DEF Records, WorksInv, TracksInv, Calling
  <2> QED BY <1>2, <2>1, <2>2
<1> QED BY <1>2, <1>4, <1>5, <1>6, WorkerWorks

LEMMA WorkerKeepsWorks ==
    ASSUME DistinctNames, Before, WorksInv, GoneInv', WorkerStep
    PROVE  WorksInv'
<1>1. CASE Submit \/ Refuse \/ Compare \/ ManagerStep
      BY <1>1, CallMoves, GoOnWorks, RecordWorks
<1> QED BY <1>1, DeleteWorks, InvalidWorks, DoneWorks, CreateWorks DEF WorkerStep

LEMMA WorksInit == Init => WorksInv
<1> SUFFICES ASSUME Init PROVE WorksInv
    OBVIOUS
<1>1. /\ obj.there /\ due /\ rec = Resting
      /\ DOMAIN queue = {} /\ DOMAIN engine = {} /\ \A t \in M!Threads : pc[t] = "idle"
      BY DEF Init, Created, Absent, M!Init
<1>2. pc[R] = "idle" /\ \A p \in Passes : pc[p] = "idle"
      BY <1>1 DEF M!Threads
<1> QED BY <1>1, <1>2, RestingFields DEF WorksInv, TableInv, PassInv, PassWork, ParamsInv,
        TracksInv, GoneInv, AtRest, CallPCs

LEMMA WorksStep ==
    ASSUME Quiet, Before, WorksInv, [Next]_vars
    PROVE  WorksInv'
<1>1. GoneInv'
      BY GoneStep DEF Before, WorksInv
<1>2. CASE \/ Settled /\ (User \/ Resync \/ (\E id \in AllIds : Fire(id))
                               \/ (\E p \in Passes : Tick(p)) \/ Crash)
           \/ Sync \/ ReadGone \/ \E id \in AllIds : Result(id)
      BY <1>1, <1>2, UserWorks, OtherWorks, CrashWorks
<1>3. CASE Read \/ WorkerStep \/ Skip \/ Update
      BY <1>1, <1>3, ReadWorks, WorkerKeepsWorks, EndWorks DEF Quiet
<1>4. CASE \E p \in Passes : GarbageCollect(p)
      BY <1>1, <1>4, PassWorks
<1>5. CASE UNCHANGED vars
  <2>1. UNCHANGED <<obj, cstale, due, rec, queue, engine, pc, arg>>
        BY <1>5 DEF vars, managerVars
  <2> QED BY <1>1, <2>1 DEF WorksInv, TableInv, PassInv, PassWork, ParamsInv, TracksInv, Tracks,
          AtRest, Deleting, Calling
<1> QED BY <1>2, <1>3, <1>4, <1>5, Kinds DEF Before, CalmInv, TurnsInv

LEMMA AlwaysWorks ==
    ASSUME Quiet
    PROVE  Spec => [](Before /\ WorksInv)
<1>1. Before /\ WorksInv /\ [Next]_vars => WorksInv'
      BY WorksStep
<1> QED BY <1>1, AlwaysCalm, WorksInit, PTL DEF Spec

-------------------------------------------------------------------------------
\* When the controller rests.

\* The status describes the spec, and what it names is in the engine under one work.
LEMMA AtRestNow ==
    ASSUME Quiet, Before, WorksInv, Settled, obj.there
    PROVE  /\ Matching(obj)
           /\ \A i \in DOMAIN engine : i \in DOMAIN queue
           /\ \A i \in DOMAIN queue :
                 i \in DOMAIN engine /\ engine[i].work = queue[i].work
                 /\ queue[i].work.params = obj.sparams
           /\ \A i \in DOMAIN queue : \A c \in obj.conds :
                 c.id = i => engine[i].work.job = c.job
<1> USE DEF Before, CalmInv, TurnsInv
<1>1. AtRest /\ ~rec.active /\ pc[R] = "idle"
      BY SettledFacts DEF AtRest
<1>2. Matching(obj)
  <2>1. Unambiguous
        BY DEF Quiet, DistinctNames, Distinct, ListsInv, Unambiguous
  <2> QED BY <1>1, <2>1 DEF Quiet, StatusInv, RestInv
<1>3. \A i \in DOMAIN engine : i \in DOMAIN queue
      BY <1>1 DEF CalmTables
<1>4. \A i \in DOMAIN queue :
         i \in DOMAIN engine /\ engine[i].work = queue[i].work
         /\ queue[i].work.params = obj.sparams
      BY <1>1 DEF WorksInv, TableInv, ParamsInv
<1>5. ASSUME NEW i \in DOMAIN queue, NEW c \in obj.conds, c.id = i
      PROVE  engine[i].work.job = c.job
  <2>1. Names(i, c.job) /\ Names(i, engine[i].work.job)
        BY <1>4, <1>5, ManagerShapes DEF Names, Listed
  <2> QED BY <2>1 DEF OneJob, NoIds
<1> QED BY <1>2, <1>3, <1>4, <1>5

\* In the calm environment: once the controller has caught up, every job of the spec that
\* can run is scheduled as the spec has it, also when targets were refused before, exclude
\* dates changed, or the object was deleted and created again (controller.go:91-205).
THEOREM CalmScheduled ==
    ASSUME Quiet
    PROVE  Spec => []SpecScheduled
<1>1. Before /\ WorksInv => SpecScheduled
  <2> SUFFICES ASSUME Before, WorksInv, Settled, obj.there, obj.params \in ValidParams,
                      NEW j \in obj.jobs, j.plan \in GoodPlans, ~j.once
               PROVE  \E i \in DOMAIN engine : engine[i].work = [job |-> j, params |-> obj.params]
      BY DEF SpecScheduled
  <2>1. Matching(obj)
        BY AtRestNow
  <2>2. PICK c \in obj.conds : c.job = j
        BY <2>1 DEF Matching
  <2>3. obj.sparams = obj.params /\ c.id # NoId
        BY <2>1 DEF Matching, Before, CalmInv, TurnsInv, NoIds, Marks
  <2>4. c.id \in DOMAIN queue
    <3>1. AtRest
          BY SettledFacts DEF AtRest, Before
    <3> QED BY <2>2, <2>3, <3>1 DEF WorksInv, TracksInv, Tracks, Scheduling
  <2>5. /\ c.id \in DOMAIN engine
        /\ engine[c.id].work.job = j /\ engine[c.id].work.params = obj.params
        BY <2>2, <2>3, <2>4, AtRestNow
  <2>6. engine[c.id].work \in Works
        BY <2>5, ManagerShapes DEF Before, M!Jobs
  <2> QED BY <2>5, <2>6 DEF Works
<1> QED BY <1>1, AlwaysWorks, PTL

\* And what the status names is in the engine (controller.go:168-184).
THEOREM CalmNamed ==
    ASSUME Quiet
    PROVE  Spec => []NamedIsScheduled
<1>1. Before /\ WorksInv => NamedIsScheduled
  <2> SUFFICES ASSUME Before, WorksInv, Settled, NEW c \in obj.conds, c.job \in obj.jobs,
                      ~c.job.once, c.job.plan \in GoodPlans, c.id # NoId
               PROVE  c.id \in DOMAIN engine
      BY DEF NamedIsScheduled
  <2>1. obj.there
        BY DEF WorksInv, GoneInv
  <2>2. AtRest
        BY SettledFacts DEF AtRest, Before
  <2>3. c.id \in DOMAIN queue
        BY <2>1, <2>2 DEF WorksInv, TracksInv, Tracks, Scheduling
  <2> QED BY <2>1, <2>3, AtRestNow
<1> QED BY <1>1, AlwaysWorks, PTL

\* With the target and the exclude dates of the spec (controller.go:229).
THEOREM CalmRecreated ==
    ASSUME Quiet
    PROVE  Spec => []RecreatedOnGlobalChange
<1>1. Before /\ WorksInv => RecreatedOnGlobalChange
  <2> SUFFICES ASSUME Before, WorksInv, Settled, obj.there,
                      NEW c \in obj.conds, c.id \in DOMAIN engine
               PROVE  engine[c.id].work.params = obj.params
      BY DEF RecreatedOnGlobalChange
  <2> QED BY AtRestNow DEF Matching
<1> QED BY <1>1, AlwaysWorks, PTL

\* And nothing that the spec does not have is left: what the loop over the conditions is
\* for (controller.go:107), and what an edit during a reconcile breaks.
THEOREM CalmExpired ==
    ASSUME Quiet
    PROVE  Spec => []ExpiredDeleted
<1>1. Before /\ WorksInv => ExpiredDeleted
  <2> SUFFICES ASSUME Before, WorksInv, Settled, NEW i \in DOMAIN engine
               PROVE  engine[i].work.job \in obj.jobs
      BY DEF ExpiredDeleted
  <2>1. ~cstale /\ ~due /\ ~rec.active /\ PassesIdle /\ pc[R] = "idle"
        BY SettledFacts DEF Before
  <2>2. i \in DOMAIN queue
        BY <2>1 DEF Before, CalmInv, TurnsInv, CalmTables
  <2>3. obj.there
        BY <2>1, <2>2 DEF Before, CalmInv, TurnsInv, Known
  <2>4. PICK c \in obj.conds : c.id = i
        BY <2>1, <2>2, <2>3 DEF Before, CalmInv, TurnsInv, Known, Covers
  <2> QED BY <2>2, <2>3, <2>4, AtRestNow DEF Matching
<1> QED BY <1>1, AlwaysWorks, PTL

===============================================================================
