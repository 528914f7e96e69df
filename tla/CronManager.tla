------------------------------ MODULE CronManager ------------------------------
(***************************************************************************)
(* The cron manager (pkg/controller/cronmanager.go, cronexecutor.go): a    *)
(* queue of tracked jobs kept beside the engine's own table, both keyed by *)
(* job identifier and kept in step by calls that lock neither.  The one    *)
(* reconcile worker calls createOrUpdate and delete; garbage collection    *)
(* passes, one from a ticker and one per reconciled deletion, run beside   *)
(* it and beside each other.  A crash loses all of it: nothing is kept     *)
(* outside the process.                                                    *)
(*                                                                         *)
(* Atomicity: one action per operation on the sync.Map, per AddJob,        *)
(* RemoveJob or Entries of the engine (CronEngine implements JobTable: its *)
(* table changes in one step of the call) and per read of a CronHPA from   *)
(* the client's cache.                                                     *)
(*                                                                         *)
(* Environment.  present is the set of CronHPAs in the cache.  A job id is *)
(* a uuid, so it belongs to one CronHPA, Owner[id]; CronHPAs are known by  *)
(* name, so one that is deleted and created again is the same.  Returning  *)
(* names those that may.  SpuriousMiss says whether Entries can come back  *)
(* empty (see Cross in CronEngine).                                        *)
(***************************************************************************)
EXTENDS Naturals

CONSTANTS Ids,           \* job identifiers
          Hpas,          \* CronHPA objects
          Owner,         \* the CronHPA a job identifier belongs to
          Works,         \* what jobs are to do: plan, target, size, options
          Parses,        \* the works whose plan cron.Parse accepts
          Compared,      \* the part of a work that Equals compares
          NoJob,         \* what a thread without a job works on
          R,             \* the reconcile worker
          Passes,        \* garbage collection goroutines
          Returning,     \* CronHPAs that may come back after a deletion
          SpuriousMiss   \* whether FindJob may miss a scheduled job

ASSUME ManagerAssumption ==
    /\ Owner \in [Ids -> Hpas]
    /\ Parses \subseteq Works
    /\ DOMAIN Compared = Works
    /\ R \notin Passes
    /\ Returning \subseteq Hpas
    /\ SpuriousMiss \in BOOLEAN

Jobs == [id : Ids, work : Works]

Threads == {R} \cup Passes

\* Where a thread is: between calls, in createOrUpdate (c_, u_), in delete (d_)
\* or in the body of GC (g_); the name says what it does next.
PCs == {"idle",
        "c_add", "c_store", "c_again", "u_remove", "u_add", "u_store",
        "d_load", "d_remove", "d_drop",
        "g_range", "g_find", "g_get", "g_remove", "g_add"}

VARIABLES
    queue,     \* jobQueue: identifiers to tracked jobs
    engine,    \* the engine's table: identifiers to scheduled jobs
    present,   \* the CronHPAs in the client's cache
    pc,        \* where each thread is
    arg,       \* the job each thread is working on
    todo,      \* what is left of each pass's Range
    found,     \* what FindJob last told each pass
    failed     \* history: tracked jobs whose last update the engine refused

vars == <<queue, engine, present, pc, arg, todo, found, failed>>

Table == INSTANCE JobTable WITH table <- engine, launched <- [i \in Ids |-> 0]

JobMap(m) == DOMAIN m \subseteq Ids /\ m \in [DOMAIN m -> Jobs]

TypeOK ==
    /\ JobMap(queue) /\ \A i \in DOMAIN queue : queue[i].id = i
    /\ JobMap(engine) /\ \A i \in DOMAIN engine : engine[i].id = i
    /\ present \subseteq Hpas
    /\ pc \in [Threads -> PCs]
    /\ arg \in [Threads -> Jobs \cup {NoJob}]
    /\ \A t \in Threads : pc[t] \in {"idle", "g_range"} \/ arg[t] \in Jobs
    /\ todo \in [Passes -> SUBSET Ids]
    /\ found \in [Passes -> {"found", "late", "missing"}]
    /\ failed \subseteq Ids

Init ==
    /\ queue = [i \in {} |-> {}]
    /\ engine = [i \in {} |-> {}]
    /\ present = Hpas
    /\ pc = [t \in Threads |-> "idle"]
    /\ arg = [t \in Threads |-> NoJob]
    /\ todo = [p \in Passes |-> {}]
    /\ found = [p \in Passes |-> "missing"]
    /\ failed = {}

-------------------------------------------------------------------------------
\* Steps shared by the calls.

Goto(t, l) == pc' = [pc EXCEPT ![t] = l]

\* The end of a call: back to the caller, Reconcile or the next key of a Range.
Return(t) ==
    /\ Goto(t, IF t = R THEN "idle" ELSE "g_range")
    /\ arg' = [arg EXCEPT ![t] = NoJob]

\* Thread t goes on to l with its job, or returns.
ContinueIf(t, cond, l) == IF cond THEN Goto(t, l) /\ UNCHANGED arg ELSE Return(t)

\* CronExecutor.AddJob: the engine parses the plan first.
AddJob(j) ==
    IF j.work \in Parses
    THEN engine' = Table!Scheduled(engine, j) /\ failed' = failed \ {j.id}
    ELSE UNCHANGED <<engine, failed>>

\* CronExecutor.RemoveJob: the engine ignores an identifier it does not know.
RemoveJob(id) == engine' = Table!Unscheduled(engine, id) /\ UNCHANGED failed

Store(j) == queue' = Table!Scheduled(queue, j)

Equals(j, k) == j.id = k.id /\ Compared[j.work] = Compared[k.work]

-------------------------------------------------------------------------------
\* createOrUpdate, called by Reconcile.

CreateLoad(j) ==
    /\ pc[R] = "idle"
    /\ arg' = [arg EXCEPT ![R] = j]
    /\ Goto(R, IF j.id \in DOMAIN queue THEN "c_again" ELSE "c_add")
    /\ UNCHANGED <<queue, engine, present, todo, found, failed>>

\* Mutant: the error of AddJob is not looked at.
CreateAddUnchecked ==
    /\ pc[R] = "c_add"
    /\ AddJob(arg[R])
    /\ Goto(R, "c_store")
    /\ UNCHANGED <<queue, present, arg, todo, found>>

CreateAdd ==
    /\ pc[R] = "c_add"
    /\ AddJob(arg[R])
    /\ ContinueIf(R, arg[R].work \in Parses, "c_store")
    /\ UNCHANGED <<queue, present, todo, found>>

CreateStore ==
    /\ pc[R] = "c_store"
    /\ Store(arg[R])
    /\ Return(R)
    /\ UNCHANGED <<engine, present, todo, found, failed>>

\* The second Load: the job may be gone by now, which is an error, or be equal
\* to the new one, which is NoNeedUpdate.
CreateAgain ==
    /\ pc[R] = "c_again"
    /\ ContinueIf(R, /\ arg[R].id \in DOMAIN queue
                     /\ ~Equals(queue[arg[R].id], arg[R]), "u_remove")
    /\ UNCHANGED <<queue, engine, present, todo, found, failed>>

UpdateRemove ==
    /\ pc[R] = "u_remove"
    /\ RemoveJob(arg[R].id)
    /\ Goto(R, "u_add")
    /\ UNCHANGED <<queue, present, arg, todo, found>>

\* If the new plan does not parse the old job stays in the queue, unscheduled.
UpdateAdd ==
    /\ pc[R] = "u_add"
    /\ IF arg[R].work \in Parses
       THEN AddJob(arg[R])
       ELSE failed' = failed \cup {arg[R].id} /\ UNCHANGED engine
    /\ ContinueIf(R, arg[R].work \in Parses, "u_store")
    /\ UNCHANGED <<queue, present, todo, found>>

UpdateStore ==
    /\ pc[R] = "u_store"
    /\ Store(arg[R])
    /\ Return(R)
    /\ UNCHANGED <<engine, present, todo, found, failed>>

-------------------------------------------------------------------------------
\* delete, called by Reconcile and by garbage collection.

CallDelete(id) ==
    /\ pc[R] = "idle"
    /\ id \in DOMAIN queue
    /\ arg' = [arg EXCEPT ![R] = queue[id]]
    /\ Goto(R, "d_remove")
    /\ UNCHANGED <<queue, engine, present, todo, found, failed>>

DeleteLoad(p) ==
    /\ pc[p] = "d_load"
    /\ ContinueIf(p, arg[p].id \in DOMAIN queue, "d_remove")
    /\ UNCHANGED <<queue, engine, present, todo, found, failed>>

DeleteRemove(t) ==
    /\ pc[t] = "d_remove"
    /\ RemoveJob(arg[t].id)
    /\ Goto(t, "d_drop")
    /\ UNCHANGED <<queue, present, arg, todo, found>>

\* Mutant: the queue keeps the key with no job under it.
DeleteDropToNil(t) ==
    /\ pc[t] = "d_drop"
    /\ queue' = [i \in DOMAIN queue |-> IF i = arg[t].id THEN [id |-> i] ELSE queue[i]]
    /\ Return(t)
    /\ UNCHANGED <<engine, present, todo, found, failed>>

DeleteDrop(t) ==
    /\ pc[t] = "d_drop"
    /\ queue' = Table!Unscheduled(queue, arg[t].id)
    /\ Return(t)
    /\ UNCHANGED <<engine, present, todo, found, failed>>

-------------------------------------------------------------------------------
\* GC.  Range visits the keys the queue had when it began, each at most once,
\* with the value it has when visited, if it still has one.

GCStart(p) ==
    /\ pc[p] = "idle"
    /\ todo' = [todo EXCEPT ![p] = DOMAIN queue]
    /\ Goto(p, "g_range")
    /\ UNCHANGED <<queue, engine, present, arg, found, failed>>

GCVisit(p, id) ==
    /\ pc[p] = "g_range"
    /\ id \in todo[p]
    /\ todo' = [todo EXCEPT ![p] = @ \ {id}]
    /\ IF id \in DOMAIN queue
       THEN arg' = [arg EXCEPT ![p] = queue[id]] /\ Goto(p, "g_find")
       ELSE UNCHANGED <<pc, arg>>
    /\ UNCHANGED <<queue, engine, present, found, failed>>

GCEnd(p) ==
    /\ pc[p] = "g_range"
    /\ todo[p] = {}
    /\ Goto(p, "idle")
    /\ UNCHANGED <<queue, engine, present, arg, todo, found, failed>>

\* FindJob: a listed job is found, or late when its activation is overdue.
GCFind(p) ==
    /\ pc[p] = "g_find"
    /\ \/ /\ arg[p].id \in DOMAIN engine
          /\ \E answer \in {"found", "late"} : found' = [found EXCEPT ![p] = answer]
       \/ /\ arg[p].id \notin DOMAIN engine \/ SpuriousMiss
          /\ found' = [found EXCEPT ![p] = "missing"]
    /\ Goto(p, "g_get")
    /\ UNCHANGED <<queue, engine, present, arg, todo, failed>>

\* Mutant: nothing to collect when the engine does not have the job.
GCGetNotFoundOnlyFound(p) ==
    /\ pc[p] = "g_get"
    /\ Owner[arg[p].id] \notin present
    /\ ContinueIf(p, found[p] = "found", "g_remove")
    /\ UNCHANGED <<queue, engine, present, todo, found, failed>>

\* Get: the CronHPA is gone and its job is collected, found or not.
GCGetNotFound(p) ==
    /\ pc[p] = "g_get"
    /\ Owner[arg[p].id] \notin present
    /\ Goto(p, IF found[p] = "found" THEN "g_remove" ELSE "d_load")
    /\ UNCHANGED <<queue, engine, present, arg, todo, found, failed>>

\* Mutant: only late jobs are scheduled again.
GCGetExistsLateOnly(p) ==
    /\ pc[p] = "g_get"
    /\ Owner[arg[p].id] \in present
    /\ ContinueIf(p, found[p] = "late", "g_add")
    /\ UNCHANGED <<queue, engine, present, todo, found, failed>>

\* Mutant: late jobs are collected instead.
GCGetExistsCollectsLate(p) ==
    /\ pc[p] = "g_get"
    /\ Owner[arg[p].id] \in present
    /\ IF found[p] = "late"
       THEN Goto(p, "d_load") /\ UNCHANGED arg
       ELSE ContinueIf(p, found[p] = "missing", "g_add")
    /\ UNCHANGED <<queue, engine, present, todo, found, failed>>

\* Get: the CronHPA exists; a job not found is scheduled again (after its
\* action is run once when it was late), a job found only counted.
GCGetExists(p) ==
    /\ pc[p] = "g_get"
    /\ Owner[arg[p].id] \in present
    /\ ContinueIf(p, found[p] # "found", "g_add")
    /\ UNCHANGED <<queue, engine, present, todo, found, failed>>

\* Mutant: every error is taken for a CronHPA that is gone.
GCGetErrorCollects(p) ==
    /\ pc[p] = "g_get"
    /\ Goto(p, IF found[p] = "found" THEN "g_remove" ELSE "d_load")
    /\ UNCHANGED <<queue, engine, present, arg, todo, found, failed>>

\* Get: any other error leaves the job alone.
GCGetError(p) ==
    /\ pc[p] = "g_get"
    /\ Return(p)
    /\ UNCHANGED <<queue, engine, present, todo, found, failed>>

GCRemove(p) ==
    /\ pc[p] = "g_remove"
    /\ RemoveJob(arg[p].id)
    /\ Goto(p, "d_load")
    /\ UNCHANGED <<queue, present, arg, todo, found>>

GCAdd(p) ==
    /\ pc[p] = "g_add"
    /\ AddJob(arg[p])
    /\ Return(p)
    /\ UNCHANGED <<queue, present, todo, found>>

-------------------------------------------------------------------------------
\* The environment.

Vanish(h) ==
    /\ h \in present
    /\ present' = present \ {h}
    /\ UNCHANGED <<queue, engine, pc, arg, todo, found, failed>>

Reappear(h) ==
    /\ h \in Returning \ present
    /\ present' = present \cup {h}
    /\ UNCHANGED <<queue, engine, pc, arg, todo, found, failed>>

\* The process crashes and is started again; its cache is filled anew.
Restart ==
    /\ queue' = [i \in {} |-> {}]
    /\ engine' = [i \in {} |-> {}]
    /\ present' \in SUBSET (present \cup Returning)
    /\ pc' = [t \in Threads |-> "idle"]
    /\ arg' = [t \in Threads |-> NoJob]
    /\ todo' = [p \in Passes |-> {}]
    /\ found' = [p \in Passes |-> "missing"]
    /\ failed' = {}

-------------------------------------------------------------------------------
Create == CreateAdd \/ CreateStore \/ CreateAgain \/ UpdateRemove \/ UpdateAdd \/ UpdateStore

Delete(t) == DeleteRemove(t) \/ DeleteDrop(t)

Collect(p) ==
    \/ \E id \in Ids : GCVisit(p, id)
    \/ GCEnd(p)
    \/ GCFind(p)
    \/ GCGetNotFound(p)
    \/ GCGetExists(p)
    \/ GCRemove(p)
    \/ GCAdd(p)
    \/ DeleteLoad(p)

Next ==
    \/ \E j \in Jobs : CreateLoad(j)
    \/ \E id \in Ids : CallDelete(id)
    \/ Create
    \/ \E t \in Threads : Delete(t)
    \/ \E p \in Passes : GCStart(p) \/ Collect(p) \/ GCGetError(p)
    \/ \E h \in Hpas : Vanish(h) \/ Reappear(h)
    \/ Restart

Spec == Init /\ [][Next]_vars

\* Goroutines run; the ticker starts a pass again and again; a read of the
\* cache does not fail for ever.  Nothing makes Reconcile call.
Fairness ==
    /\ WF_vars(Create)
    /\ WF_vars(Delete(R))
    /\ \A p \in Passes :
          /\ WF_vars(GCStart(p))
          /\ WF_vars(Collect(p) \/ Delete(p) \/ GCGetError(p))
          /\ SF_vars(GCGetNotFound(p) \/ GCGetExists(p))

FairSpec == Spec /\ Fairness

-------------------------------------------------------------------------------
\* Properties.

\* The CronHPAs that, once deleted, are gone for good.
Lasting == Hpas \ Returning

\* The job the reconcile worker has taken out of the engine and not yet either
\* dropped from the queue or put back.
InTransit(i) == pc[R] \in {"d_drop", "u_add"} /\ arg[R].id = i

\* A tracked job of an existing CronHPA is scheduled, whatever passes of garbage
\* collection run, unless the reconcile worker is just taking it out or its
\* update was refused by the engine (cronmanager.go:49-90, 209-302).
TrackedIsScheduled ==
    \A i \in DOMAIN queue :
        Owner[i] \in present \cap Lasting =>
            i \in DOMAIN engine \/ InTransit(i) \/ i \in failed

\* Garbage collection takes nothing away from a CronHPA that exists: only the
\* reconcile worker's own delete untracks or unschedules its jobs
\* (cronmanager.go:226-242).
CollectsOnlyAbandoned ==
    [][\A i \in Ids : Owner[i] \in present \cap Lasting /\ ~Restart =>
          /\ i \in DOMAIN queue \ DOMAIN queue' => pc[R] = "d_drop" /\ arg[R].id = i
          /\ i \in DOMAIN engine \ DOMAIN engine' =>
                pc[R] \in {"d_remove", "u_remove"} /\ arg[R].id = i]_vars

\* Whatever happened to a tracked job of an existing CronHPA, a refused update
\* included, the watchdog schedules it again (cronmanager.go:251-264).
TrackedGetsScheduled ==
    \A i \in Ids :
        (i \in DOMAIN queue /\ Owner[i] \in present)
            ~> (i \in DOMAIN engine \/ i \notin DOMAIN queue \/ Owner[i] \notin present)

\* A job of a CronHPA that is gone is dropped from the queue (cronmanager.go:226-241).
AbandonedIsDropped ==
    \A i \in Ids :
        (i \in DOMAIN queue /\ Owner[i] \notin present)
            ~> (i \notin DOMAIN queue \/ Owner[i] \in present)
===============================================================================
