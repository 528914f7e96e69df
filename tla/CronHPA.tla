-------------------------------- MODULE CronHPA --------------------------------
(***************************************************************************)
(* One CronHPA object and the controller: the API server's copy and the    *)
(* informer's, the reconcile worker, the cron manager (CronManager, all of *)
(* whose steps are taken here as they are), the runs of jobs and the       *)
(* handler that patches their results into the status.  The object's       *)
(* status is the only memory that survives a crash; it ties a job of the   *)
(* spec to the identifier under which the manager knows it.                *)
(*                                                                         *)
(* Abstractions.  A job of the spec is a record of name, plan, size and    *)
(* once (RunOnce, or a plan with "@date").  scaleTargetRef and             *)
(* excludeDates are one value, params.  Spec and status hold their jobs    *)
(* and conditions as sets: jobs are handled in any order.  Resource        *)
(* versions become two flags, cstale and rec.stale; the informer may skip  *)
(* versions.  uuids are fresh: an identifier is given out again only when  *)
(* nothing refers to it any more.  What a run does to its target is left   *)
(* out; its result is any.                                                 *)
(*                                                                         *)
(* Bounds.  Budget bounds what the environment does: edits, deletions      *)
(* (and re-creations), fires of jobs, updates that fail (errors), results  *)
(* that are lost (patches), crashes, resyncs and ticks of the garbage      *)
(* collector.  A job has at most one run at a time.                        *)
(***************************************************************************)
EXTENDS Naturals

CONSTANTS Hpa,           \* the name of the CronHPA
          Ids,           \* job identifiers the factory can draw
          NoId,          \* the empty identifier
          JobSpecs,      \* jobs a spec may hold: [name, plan, size, once]
          JobLists,      \* what may be in spec.jobs
          Params,        \* values of scaleTargetRef and excludeDates together
          NoParams,      \* those of a status nobody has written
          RefOf,         \* the scaleTargetRef in a value of Params
          ValidParams,   \* those the job factory accepts
          GoodPlans,     \* plans that cron.Parse accepts
          NoJob, R, Passes,
          Budget,        \* bounds on the environment
          Calm           \* whether the environment waits for the controller

ASSUME HPAAssumption ==
    /\ NoId \notin Ids
    /\ \A s \in JobSpecs : DOMAIN s = {"name", "plan", "size", "once"} /\ s.once \in BOOLEAN
    /\ JobLists \subseteq SUBSET JobSpecs
    /\ NoParams \notin Params /\ ValidParams \subseteq Params /\ Params \subseteq DOMAIN RefOf
    /\ R \notin Passes
    /\ NoJob \notin [id : Ids \cup {NoId}, work : [job : JobSpecs, params : Params]]
    /\ Calm \in BOOLEAN
    /\ Budget \in [{"edits", "deletions", "fires", "errors", "patches",
                    "crashes", "resyncs", "ticks"} -> Nat]

AllIds == Ids \cup {NoId}

\* The manager's view of a job: what createOrUpdate compares is plan and target.
Works == [job : JobSpecs, params : Params]

Final == {"Succeed", "Failed"}

Conditions == [job : JobSpecs, id : AllIds, state : Final \cup {"Submitted"}]

Objects == [there : BOOLEAN, jobs : SUBSET JobSpecs, params : Params \cup {NoParams},
            sparams : Params \cup {NoParams}, conds : SUBSET Conditions]

VARIABLES
    obj,       \* the object in the API server: spec (jobs, params) and status
    cache,     \* the informer's copy
    cstale,    \* whether the server has a version the informer lacks
    due,       \* whether the work queue holds the object's key
    rec,       \* the reconcile in progress
    run,       \* the run of each job and the patch it leads to
    ran,       \* history: how often each job has run, up to two
    budget,    \* what is left of Budget
    queue, engine, pc, arg, todo, found, failed   \* see CronManager

managerVars == <<queue, engine, pc, arg, todo, found, failed>>

vars == <<obj, cache, cstale, due, rec, run, ran, budget, managerVars>>

M == INSTANCE CronManager WITH
        Ids <- AllIds,
        Hpas <- {Hpa},
        Owner <- [i \in AllIds |-> Hpa],
        Parses <- {w \in Works : w.job.plan \in GoodPlans},
        Compared <- [w \in Works |-> <<w.job.plan, RefOf[w.params]>>],
        Returning <- {Hpa},
        SpuriousMiss <- FALSE,
        present <- IF cache.there THEN {Hpa} ELSE {}

Absent == [there |-> FALSE, jobs |-> {}, params |-> NoParams, sparams |-> NoParams, conds |-> {}]

Created(jobs, params) == [Absent EXCEPT !.there = TRUE, !.jobs = jobs, !.params = params]

\* No reconcile in progress.  inst is the instance being worked on, dels the
\* identifiers still to delete, jobs the jobs of the spec still to handle, kept
\* the conditions left (leftConditions), noNeed is noNeedUpdateStatus, moved
\* says that conditions were dropped, stale that inst is not the last version.
Resting == [active |-> FALSE, inst |-> Absent, dels |-> {}, jobs |-> {}, kept |-> {},
            noNeed |-> TRUE, moved |-> FALSE, stale |-> FALSE]

NoRun == [at |-> "none", job |-> NoJob, conds |-> {}]

TypeOK ==
    /\ M!TypeOK
    /\ obj \in Objects /\ cache \in Objects
    /\ cstale \in BOOLEAN /\ (~cstale => cache = obj)
    /\ due \in BOOLEAN
    /\ rec.active \in BOOLEAN /\ rec.inst \in Objects /\ rec.dels \subseteq AllIds
    /\ rec.jobs \subseteq rec.inst.jobs /\ rec.kept \subseteq Conditions
    /\ \A i \in AllIds : /\ run[i].at \in {"none", "running", "patching"}
                         /\ run[i].at = "running" => run[i].job \in M!Jobs
                         /\ run[i].conds \subseteq Conditions
    /\ ran \in [AllIds -> 0..2]

Init ==
    /\ \E jobs \in JobLists, params \in Params : obj = Created(jobs, params)
    /\ cache = obj
    /\ cstale = FALSE
    /\ due = TRUE
    /\ rec = Resting
    /\ run = [i \in AllIds |-> NoRun]
    /\ ran = [i \in AllIds |-> 0]
    /\ budget = Budget
    /\ M!Init

\* Nothing is under way: the controller has caught up with the API server.
Settled ==
    /\ ~cstale /\ ~due /\ ~rec.active
    /\ \A i \in AllIds : run[i] = NoRun
    /\ \A p \in Passes : pc[p] = "idle"

Spend(what) ==
    /\ budget[what] > 0
    /\ budget' = [budget EXCEPT ![what] = @ - 1]
    /\ Calm => Settled

-------------------------------------------------------------------------------
\* The API server and the informer.

\* The server holds a new version of the object.
Versioned(o) ==
    /\ obj' = o
    /\ cstale' = TRUE
    /\ rec' = [rec EXCEPT !.stale = rec.active]

UserEdit(jobs, params) ==
    /\ obj.there
    /\ <<jobs, params>> # <<obj.jobs, obj.params>>
    /\ Spend("edits")
    /\ Versioned([obj EXCEPT !.jobs = jobs, !.params = params])
    /\ UNCHANGED <<cache, due, run, ran, managerVars>>

UserDelete ==
    /\ obj.there
    /\ Spend("deletions")
    /\ Versioned(Absent)
    /\ UNCHANGED <<cache, due, run, ran, managerVars>>

\* A new object under the same name, with an empty status.
UserCreate(jobs, params) ==
    /\ ~obj.there
    /\ Calm => Settled
    /\ Versioned(Created(jobs, params))
    /\ UNCHANGED <<cache, due, run, ran, budget, managerVars>>

\* Mutant: events that do not change the spec are filtered out.
SyncSpecOnly ==
    /\ cstale
    /\ cache' = obj
    /\ cstale' = FALSE
    /\ due' = (due \/ <<obj.jobs, obj.params>> # <<cache.jobs, cache.params>>)
    /\ UNCHANGED <<obj, rec, run, ran, budget, managerVars>>

\* A watch event: the cache catches up and the key is queued.
Sync ==
    /\ cstale
    /\ cache' = obj
    /\ cstale' = FALSE
    /\ due' = TRUE
    /\ UNCHANGED <<obj, rec, run, ran, budget, managerVars>>

\* The informer's periodic resync.
Resync ==
    /\ cache.there
    /\ Spend("resyncs")
    /\ due' = TRUE
    /\ UNCHANGED <<obj, cache, cstale, rec, run, ran, managerVars>>

-------------------------------------------------------------------------------
\* Reconcile.

Popped == due /\ ~rec.active /\ due' = FALSE

\* Get finds nothing: a pass of garbage collection is started.
ReadGone ==
    /\ Popped
    /\ ~cache.there
    /\ UNCHANGED <<obj, cache, cstale, rec, run, ran, budget>>
    /\ \E p \in Passes : M!GCStart(p)

\* Mutant: a changed size is not a change.
UnchangedButSize(c) == \E j \in cache.jobs : j = [c.job EXCEPT !.size = j.size]

\* A condition whose job is still in the spec, unchanged.
Unchanged(c) == c.job \in cache.jobs

\* Mutant: the old job is not deleted when it has changed.
ExpiredByName(c) == ~\E j \in cache.jobs : j.name = c.job.name

\* A condition whose job is deleted from the manager: no job of the spec has its
\* name, or one does and differs.
Expired(c) ==
    \/ ~Unchanged(c)
    \/ \E j \in cache.jobs : j.name = c.job.name /\ j # c.job

\* Mutant: the exclude dates are not compared.
GlobalChangeOfTarget ==
    cache.sparams = NoParams \/ RefOf[cache.sparams] # RefOf[cache.params]

GlobalChange == cache.sparams # cache.params

Read ==
    /\ Popped
    /\ cache.there
    /\ LET kept    == {c \in cache.conds : ~GlobalChange /\ Unchanged(c)}
           expired == {c \in cache.conds : GlobalChange \/ Expired(c)}
       IN  rec' = [Resting EXCEPT
             !.active = TRUE,
             !.inst = [cache EXCEPT !.sparams = cache.params, !.conds = kept],
             !.dels = {c.id : c \in expired} \ {NoId},
             !.jobs = cache.jobs,
             !.kept = kept,
             !.moved = kept # cache.conds,
             !.stale = cstale]
    /\ UNCHANGED <<obj, cache, cstale, run, ran, budget, managerVars>>

reconcileVars == <<obj, cache, cstale, due, run, budget>>

\* Mutant: the job is dropped from the queue but not from the engine.
DeleteOneQueueOnly(id) ==
    /\ rec.active /\ pc[R] = "idle"
    /\ id \in rec.dels
    /\ rec' = [rec EXCEPT !.dels = @ \ {id}]
    /\ queue' = M!Table!Unscheduled(queue, id)
    /\ UNCHANGED <<reconcileVars, ran, engine, pc, arg, todo, found, failed>>

\* Call delete of the manager, which returns at once if it does not track id.
DeleteOne(id) ==
    /\ rec.active /\ pc[R] = "idle"
    /\ id \in rec.dels
    /\ rec' = [rec EXCEPT !.dels = @ \ {id}]
    /\ UNCHANGED <<reconcileVars, ran>>
    /\ \/ M!CallDelete(id)
       \/ id \notin DOMAIN queue /\ UNCHANGED managerVars

\* Mutant: the state of the new condition is forgotten.
RecordedStateless(r, j, id, state) ==
    [r EXCEPT !.noNeed = FALSE,
              !.inst.conds = {c \in @ : c.job.name # j.name}
                             \cup {[job |-> j, id |-> id, state |-> ""]}]

\* The condition of job j replaces that of the same name.
Recorded(r, j, id, state) ==
    [r EXCEPT !.noNeed = FALSE,
              !.inst.conds = {c \in @ : c.job.name # j.name}
                             \cup {[job |-> j, id |-> id, state |-> state]}]

Record(j, id, state) == rec' = Recorded(rec, j, id, state)

\* The condition left of a job of that name, at most one.
KeptOf(j) == {c \in rec.kept : c.job.name = j.name}

HandleJob(j) ==
    /\ rec.active /\ pc[R] = "idle" /\ rec.dels = {}
    /\ j \in rec.jobs

Taken(j) == [rec EXCEPT !.jobs = @ \ {j}]

\* The job factory rejects the target.
JobInvalid(j) ==
    /\ HandleJob(j)
    /\ rec.inst.params \notin ValidParams
    /\ rec' = Recorded(Taken(j), j, NoId, "Failed")
    /\ UNCHANGED <<reconcileVars, ran, managerVars>>

\* Mutant: any job is done once it has run.
JobDoneAlways(j) ==
    /\ HandleJob(j)
    /\ rec.inst.params \in ValidParams
    /\ \E c \in KeptOf(j) :
          /\ c.state \in Final
          /\ rec' = [Taken(j) EXCEPT !.dels = {c.id}]
    /\ UNCHANGED <<reconcileVars, ran, managerVars>>

\* Mutant: a job that is done is left in the engine.
JobDoneStays(j) ==
    /\ HandleJob(j)
    /\ rec.inst.params \in ValidParams
    /\ \E c \in KeptOf(j) : j.once /\ c.state \in Final
    /\ rec' = Taken(j)
    /\ UNCHANGED <<reconcileVars, ran, managerVars>>

\* A run-once job in a final state is deleted from the manager.
JobDone(j) ==
    /\ HandleJob(j)
    /\ rec.inst.params \in ValidParams
    /\ \E c \in KeptOf(j) :
          /\ j.once /\ c.state \in Final
          /\ rec' = [Taken(j) EXCEPT !.dels = {c.id}]
    /\ UNCHANGED <<reconcileVars, ran, managerVars>>

\* Nothing in the system refers to the identifier.
Unused(id) ==
    /\ id \notin DOMAIN queue \cup DOMAIN engine
    /\ \A c \in obj.conds \cup cache.conds \cup rec.inst.conds \cup rec.kept : c.id # id
    /\ run[id] = NoRun
    /\ \A i \in AllIds : \A c \in run[i].conds : c.id # id
    /\ \A p \in Passes : id \notin todo[p] /\ (arg[p] # NoJob => arg[p].id # id)

\* The identifier the factory draws, one of the unused; they are interchangeable.
NewId == CHOOSE id \in Ids : Unused(id)

\* Any other job goes to createOrUpdate, under the identifier of the condition
\* left or a new one.
JobCreate(j) ==
    /\ HandleJob(j)
    /\ rec.inst.params \in ValidParams
    /\ \E id \in AllIds :
          /\ IF KeptOf(j) = {}
             THEN /\ id \in Ids /\ id = NewId /\ Unused(id)
                  /\ ran' = [ran EXCEPT ![id] = 0]
             ELSE /\ \E c \in KeptOf(j) : c.id = id /\ ~(j.once /\ c.state \in Final)
                  /\ UNCHANGED ran
          /\ rec' = Taken(j)
          /\ UNCHANGED reconcileVars
          /\ M!CreateLoad([id |-> id, work |-> [job |-> j, params |-> rec.inst.params]])

\* createOrUpdate returned no error.
Submit ==
    /\ pc[R] \in {"c_store", "u_store"}
    /\ Record(arg[R].work.job, arg[R].id, "Submitted")
    /\ UNCHANGED <<reconcileVars, ran>>
    /\ M!CreateStore \/ M!UpdateStore

\* AddJob or Update reports that the plan does not parse.
Refuse ==
    /\ pc[R] \in {"c_add", "u_add"}
    /\ IF arg[R].work.job.plan \in GoodPlans
       THEN UNCHANGED rec
       ELSE Record(arg[R].work.job, arg[R].id, "Failed")
    /\ UNCHANGED <<reconcileVars, ran>>
    /\ M!CreateAdd \/ M!UpdateAdd

\* The tracked job is compared: it is the same (NoNeedUpdate, nothing to record),
\* it differs, or it has just been collected, which is an error.
Compare ==
    /\ pc[R] = "c_again"
    /\ IF arg[R].id \in DOMAIN queue
       THEN UNCHANGED rec
       ELSE Record(arg[R].work.job, arg[R].id, "Failed")
    /\ UNCHANGED <<reconcileVars, ran>>
    /\ M!CreateAgain

ManagerStep ==
    /\ UNCHANGED <<rec, reconcileVars, ran>>
    /\ M!UpdateRemove \/ M!DeleteRemove(R) \/ M!DeleteDrop(R)

Handled == rec.active /\ pc[R] = "idle" /\ rec.dels = {} /\ rec.jobs = {}

NoUpdate == rec.noNeed /\ ~rec.moved

Skip ==
    /\ Handled
    /\ NoUpdate
    /\ rec' = Resting
    /\ UNCHANGED <<reconcileVars, ran, managerVars>>

\* Mutant: the object is written whatever version the server has.
UpdateUnchecked ==
    /\ Handled
    /\ ~NoUpdate
    /\ obj.there
    /\ rec' = Resting
    /\ obj' = rec.inst
    /\ cstale' = TRUE
    /\ UNCHANGED <<cache, due, run, ran, budget, managerVars>>

\* Mutant: only a changed number of conditions is worth an update.
UpdateWhenMoved ==
    /\ Handled
    /\ ~NoUpdate
    /\ rec' = Resting
    /\ IF rec.moved /\ ~rec.stale
       THEN obj' = rec.inst /\ cstale' = TRUE
       ELSE UNCHANGED <<obj, cstale>>
    /\ UNCHANGED <<cache, due, run, ran, budget, managerVars>>

\* The whole object is written, spec and status.  A fresh probe time may be all
\* that is new, and even that the same to the second.
Update ==
    /\ Handled
    /\ ~NoUpdate
    /\ ~rec.stale
    /\ rec' = Resting
    /\ obj' = rec.inst
    /\ cstale' \in IF rec.inst = obj THEN {FALSE, ~rec.noNeed} ELSE {TRUE}
    /\ UNCHANGED <<cache, due, run, ran, budget, managerVars>>

\* The server has another version, or no object any more.
Conflict ==
    /\ Handled
    /\ ~NoUpdate
    /\ rec.stale
    /\ rec' = Resting
    /\ UNCHANGED <<reconcileVars, ran, managerVars>>

\* Any other error is logged too, and nothing is queued.
UpdateFails ==
    /\ Handled
    /\ ~NoUpdate
    /\ budget["errors"] > 0
    /\ budget' = [budget EXCEPT !["errors"] = @ - 1]
    /\ rec' = Resting
    /\ UNCHANGED <<obj, cache, cstale, due, run, ran, managerVars>>

-------------------------------------------------------------------------------
\* Runs of jobs and their results.

Ran(id, once) == ran' = [ran EXCEPT ![id] = IF once /\ @ < 2 THEN @ + 1 ELSE @]

\* The engine launches a job.
Fire(id) ==
    /\ id \in DOMAIN engine
    /\ run[id] = NoRun
    /\ Spend("fires")
    /\ run' = [run EXCEPT ![id] = [at |-> "running", job |-> engine[id], conds |-> {}]]
    /\ Ran(id, engine[id].work.job.once)
    /\ UNCHANGED <<obj, cache, cstale, due, rec, managerVars>>

\* JobResultHandler: the condition with the job's identifier or name is
\* replaced in the conditions of the cached object, or one is added.
HandleResult(id) ==
    /\ run[id].at = "running"
    /\ \E state \in Final :
          LET done  == run[id].job
              conds == {c \in cache.conds : c.id # id /\ c.job.name # done.work.job.name}
                       \cup {[job |-> done.work.job, id |-> id, state |-> state]}
          IN  run' = [run EXCEPT ![id] = IF cache.there
                                         THEN [at |-> "patching", job |-> NoJob, conds |-> conds]
                                         ELSE NoRun]
    /\ UNCHANGED <<obj, cache, cstale, due, rec, ran, budget, managerVars>>

\* The merge patch carries the whole list of conditions and no version.
Patch(id) ==
    /\ run[id].at = "patching"
    /\ obj.there
    /\ Versioned([obj EXCEPT !.conds = run[id].conds])
    /\ run' = [run EXCEPT ![id] = NoRun]
    /\ UNCHANGED <<cache, due, ran, budget, managerVars>>

\* The object is gone, or the patch has failed three times.
PatchLost(id) ==
    /\ run[id].at = "patching"
    /\ IF obj.there
       THEN budget["patches"] > 0 /\ budget' = [budget EXCEPT !["patches"] = @ - 1]
       ELSE UNCHANGED budget
    /\ run' = [run EXCEPT ![id] = NoRun]
    /\ UNCHANGED <<obj, cache, cstale, due, rec, ran, managerVars>>

-------------------------------------------------------------------------------
\* Garbage collection and restarts.

objectVars == <<obj, cache, cstale, due, rec, run>>

Tick(p) ==
    /\ Spend("ticks")
    /\ UNCHANGED <<objectVars, ran>>
    /\ M!GCStart(p)

\* A late job is run by the pass itself, which reports the result to nobody.
GarbageCollect(p) ==
    /\ UNCHANGED <<objectVars, budget>>
    /\ IF pc[p] = "g_get" /\ cache.there /\ found[p] = "late"
       THEN Ran(arg[p].id, arg[p].work.job.once)
       ELSE UNCHANGED ran
    /\ \/ M!Collect(p)
       \/ M!DeleteRemove(p)
       \/ M!DeleteDrop(p)

Crash ==
    /\ Spend("crashes")
    /\ cache' = obj
    /\ cstale' = FALSE
    /\ due' = obj.there
    /\ rec' = Resting
    /\ run' = [i \in AllIds |-> NoRun]
    /\ UNCHANGED <<obj, ran>>
    /\ M!Restart

-------------------------------------------------------------------------------
User ==
    \/ \E jobs \in JobLists, params \in Params : UserEdit(jobs, params) \/ UserCreate(jobs, params)
    \/ UserDelete

Reconcile ==
    \/ Read
    \/ ReadGone
    \/ \E id \in AllIds : DeleteOne(id)
    \/ \E j \in JobSpecs : JobInvalid(j) \/ JobDone(j) \/ JobCreate(j)
    \/ Submit
    \/ Refuse
    \/ Compare
    \/ ManagerStep
    \/ Skip
    \/ Update
    \/ Conflict

Result(id) == HandleResult(id) \/ Patch(id) \/ PatchLost(id)

Next ==
    \/ User
    \/ Sync
    \/ Resync
    \/ Reconcile
    \/ UpdateFails
    \/ \E id \in AllIds : Fire(id) \/ Result(id)
    \/ \E p \in Passes : Tick(p) \/ GarbageCollect(p)
    \/ Crash

Spec == Init /\ [][Next]_vars

\* The informer delivers, the worker works, results are handled and passes go
\* on; users, crashes and schedules owe nothing.
FairSpec ==
    /\ Spec
    /\ WF_vars(Sync)
    /\ WF_vars(Reconcile)
    /\ \A id \in AllIds : WF_vars(Result(id))
    /\ \A p \in Passes : WF_vars(GarbageCollect(p))

-------------------------------------------------------------------------------
\* Properties.

\* The names of the jobs of the spec are distinct.  Nothing checks that they are.
Unambiguous == \A j, k \in obj.jobs : j.name = k.name => j = k

\* Once the controller has caught up, every job of the spec that can run is
\* scheduled as the spec has it, whatever edits, results, crashes and lost
\* updates came in between (controller.go:91-205).  A run-once job does not
\* count, for it may have run.
SpecScheduled ==
    Settled /\ obj.there /\ Unambiguous /\ obj.params \in ValidParams =>
        \A j \in obj.jobs :
            j.plan \in GoodPlans /\ ~j.once =>
                \E i \in DOMAIN engine : engine[i].work = [job |-> j, params |-> obj.params]

\* And the status has one condition for every job of the spec and no other.
\* (With no jobs the status is not written at all.)
StatusMatchesSpec ==
    Settled /\ obj.there /\ Unambiguous =>
        /\ obj.jobs # {} => obj.sparams = obj.params
        /\ {c.job : c \in obj.conds} = obj.jobs
        /\ \A c, d \in obj.conds : c.job.name = d.job.name => c = d

\* The job that a condition of the status names is in the engine: neither a pass
\* nor a crash has left an identifier without its job (controller.go:168-184,
\* cronmanager.go:226-264).
NamedIsScheduled ==
    Settled /\ Unambiguous =>
        \A c \in obj.conds :
            c.job \in obj.jobs /\ ~c.job.once /\ c.job.plan \in GoodPlans /\ c.id # NoId
                => c.id \in DOMAIN engine

\* And nothing is scheduled that the status does not name: every job in the
\* engine can be found, changed and deleted.
NoOrphan ==
    Settled => \A i \in DOMAIN engine : \E c \in obj.conds : c.id = i

\* controller.go:107 "check status and delete the expired job": no job stays
\* scheduled that the spec does not have.
ExpiredDeleted ==
    Settled => \A i \in DOMAIN engine : engine[i].work.job \in obj.jobs

\* controller.go:229 "if global params changed then all jobs need to be recreated":
\* the jobs the status names run with the target and exclude dates of the spec.
RecreatedOnGlobalChange ==
    Settled /\ obj.there /\ obj.params \in ValidParams =>
        \A c \in obj.conds : c.id \in DOMAIN engine => engine[c.id].work.params = obj.params

\* types.go:38 "job will only run once if enabled."
RunsOnce == \A i \in AllIds : ran[i] <= 1

\* The worker writes specs too, but never takes back what a user wrote.
NoLostEdit ==
    [][<<obj'.jobs, obj'.params>> # <<obj.jobs, obj.params>> => User]_vars

\* Seen from the manager, all of this is calls, passes, restarts and CronHPAs
\* that come and go: what CronManager shows of itself holds here too.
ImplementsManager == M!Spec

\* In the end every edit takes effect and the controller rests.
EditsTakeEffect == <>[](Settled /\ SpecScheduled /\ StatusMatchesSpec)
===============================================================================
