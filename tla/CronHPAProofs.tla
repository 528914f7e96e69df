----------------------------- MODULE CronHPAProofs -----------------------------
(***************************************************************************)
(* Theorems about CronHPA, for any jobs, parameters, budget and number of  *)
(* collection passes: its copies of the object, the manager it refines,    *)
(* its types, and what its status says of the spec.                        *)
(*                                                                         *)
(* That the worker never takes back what a user wrote rests on the chain   *)
(* of copies: the cache is the server's object unless cstale, and the      *)
(* instance being reconciled has the server's spec unless rec.stale.       *)
(***************************************************************************)
EXTENDS CronHPA, TLAPS

Same(o, p) == o.jobs = p.jobs /\ o.params = p.params /\ o.there = p.there

\* The fields objects and the reconcile in progress always have.
Shapes ==
    /\ DOMAIN obj = DOMAIN Absent /\ DOMAIN cache = DOMAIN Absent
    /\ DOMAIN rec = DOMAIN Resting /\ DOMAIN rec.inst = DOMAIN Absent

CopyInv ==
    /\ Shapes
    /\ cstale \in BOOLEAN
    /\ rec.active \in BOOLEAN /\ rec.stale \in BOOLEAN
    /\ ~cstale => cache = obj
    /\ rec.active /\ ~rec.stale => ~cstale /\ Same(rec.inst, obj)

LEMMA RestingFields ==
    /\ Resting.active = FALSE /\ Resting.stale = FALSE
    /\ Resting.inst = Absent
BY DEF Resting

LEMMA CreatedShape ==
    ASSUME NEW jobs, NEW params
    PROVE  DOMAIN Created(jobs, params) = DOMAIN Absent
BY DEF Created

LEMMA CopyInit == Init => CopyInv
<1> SUFFICES ASSUME Init PROVE CopyInv
    OBVIOUS
<1>1. PICK jobs, params : obj = Created(jobs, params)
      BY DEF Init
<1>2. cache = obj /\ cstale = FALSE /\ rec = Resting
      BY DEF Init
<1>3. DOMAIN obj = DOMAIN Absent
      BY <1>1, CreatedShape
<1> QED BY <1>2, <1>3, RestingFields DEF CopyInv, Shapes

\* Steps that leave the object and its copies alone.
LEMMA CopyStutter ==
    ASSUME CopyInv, UNCHANGED <<obj, cache, cstale, rec>>
    PROVE  CopyInv'
BY DEF CopyInv, Shapes, Same

\* A new version of the object invalidates every copy.
LEMMA CopyVersioned ==
    ASSUME CopyInv, NEW o, DOMAIN o = DOMAIN Absent, Versioned(o), cache' = cache
    PROVE  CopyInv'
<1>1. "stale" \in DOMAIN rec /\ "active" \in DOMAIN rec /\ "inst" \in DOMAIN rec
      BY DEF CopyInv, Shapes, Resting
<1>2. /\ DOMAIN rec' = DOMAIN rec
      /\ rec'.active = rec.active /\ rec'.stale = rec.active /\ rec'.inst = rec.inst
      BY <1>1 DEF Versioned
<1> QED BY <1>2 DEF Versioned, CopyInv, Shapes

\* The reconcile ends, leaving the object as it is.
LEMMA CopyRest ==
    ASSUME CopyInv, rec' = Resting, UNCHANGED <<obj, cache, cstale>>
    PROVE  CopyInv'
BY RestingFields DEF CopyInv, Shapes

\* The reconcile goes on, with the spec it has read.
LEMMA CopyGoesOn ==
    ASSUME CopyInv, UNCHANGED <<obj, cache, cstale>>,
           DOMAIN rec' = DOMAIN rec, DOMAIN rec'.inst = DOMAIN rec.inst,
           rec'.active = rec.active, rec'.stale = rec.stale, Same(rec'.inst, rec.inst)
    PROVE  CopyInv'
BY DEF CopyInv, Shapes, Same

-------------------------------------------------------------------------------
\* What the steps of Reconcile do to rec.

Fields == {"active", "inst", "dels", "jobs", "kept", "noNeed", "moved", "stale"}

LEMMA RecordedKeeps ==
    ASSUME NEW r, DOMAIN r = DOMAIN Resting, DOMAIN r.inst = DOMAIN Absent,
           NEW j, NEW id, NEW state
    PROVE  /\ DOMAIN Recorded(r, j, id, state) = DOMAIN r
           /\ DOMAIN Recorded(r, j, id, state).inst = DOMAIN r.inst
           /\ Recorded(r, j, id, state).active = r.active
           /\ Recorded(r, j, id, state).stale = r.stale
           /\ Same(Recorded(r, j, id, state).inst, r.inst)
<1>1. DOMAIN r = Fields /\ DOMAIN r.inst = {"there", "jobs", "params", "sparams", "conds"}
      BY DEF Resting, Absent, Fields
<1> QED BY <1>1 DEF Recorded, Same, Fields

LEMMA TakenKeeps ==
    ASSUME Shapes, NEW j
    PROVE  /\ DOMAIN Taken(j) = DOMAIN rec /\ DOMAIN Taken(j).inst = DOMAIN rec.inst
           /\ Taken(j).active = rec.active /\ Taken(j).stale = rec.stale
           /\ Taken(j).inst = rec.inst
<1>1. DOMAIN rec = Fields
      BY DEF Shapes, Resting, Fields
<1> QED BY <1>1 DEF Taken, Fields

-------------------------------------------------------------------------------
\* The steps.

LEMMA UserCopies == CopyInv /\ User => CopyInv'
<1> SUFFICES ASSUME CopyInv, User PROVE CopyInv'
    OBVIOUS
<1>1. ASSUME NEW jobs, NEW params, UserEdit(jobs, params)
      PROVE  CopyInv'
  <2> DEFINE o == [obj EXCEPT !.jobs = jobs, !.params = params]
  <2>1. DOMAIN o = DOMAIN Absent
        BY DEF CopyInv, Shapes
  <2> QED BY <1>1, <2>1, CopyVersioned DEF UserEdit
<1>2. CASE UserDelete
      BY <1>2, CopyVersioned DEF UserDelete
<1>3. ASSUME NEW jobs, NEW params, UserCreate(jobs, params)
      PROVE  CopyInv'
      BY <1>3, CopyVersioned, CreatedShape DEF UserCreate
<1> QED BY <1>1, <1>2, <1>3 DEF User

LEMMA ReadCopies == CopyInv /\ Read => CopyInv'
<1> SUFFICES ASSUME CopyInv, Read PROVE CopyInv'
    OBVIOUS
<1>1. PICK kept, dels :
        rec' = [Resting EXCEPT
                  !.active = TRUE,
                  !.inst = [cache EXCEPT !.sparams = cache.params, !.conds = kept],
                  !.dels = dels,
                  !.jobs = cache.jobs,
                  !.kept = kept,
                  !.moved = kept # cache.conds,
                  !.stale = cstale]
      BY DEF Read
<1>2. /\ DOMAIN rec' = DOMAIN Resting
      /\ rec'.active = TRUE /\ rec'.stale = cstale
      /\ rec'.inst = [cache EXCEPT !.sparams = cache.params, !.conds = kept]
      BY <1>1 DEF Resting
<1>3. DOMAIN rec'.inst = DOMAIN Absent /\ Same(rec'.inst, cache)
      BY <1>2 DEF CopyInv, Shapes, Absent, Same
<1>4. UNCHANGED <<obj, cache, cstale>>
      BY DEF Read
<1> QED BY <1>2, <1>3, <1>4 DEF CopyInv, Shapes, Same

\* An update is made of the spec the server has.
LEMMA UpdateKeepsSpec ==
    ASSUME CopyInv, Update
    PROVE  obj' = rec.inst /\ Same(rec.inst, obj) /\ cache = obj
BY DEF Update, Handled, CopyInv

LEMMA UpdateCopies == CopyInv /\ Update => CopyInv'
<1> SUFFICES ASSUME CopyInv, Update PROVE CopyInv'
    OBVIOUS
<1>1. /\ obj' = rec.inst /\ cache = obj /\ cache' = cache /\ rec' = Resting
      /\ cstale' \in BOOLEAN
      /\ rec.inst # obj => cstale' = TRUE
      BY UpdateKeepsSpec DEF Update, CopyInv
<1> QED BY <1>1, RestingFields DEF CopyInv, Shapes

\* A step that adds one condition to the instance and marks the job as taken.
LEMMA JobCopies ==
    ASSUME CopyInv, NEW j, JobInvalid(j) \/ JobDone(j) \/ JobCreate(j)
    PROVE  CopyInv'
<1>1. UNCHANGED <<obj, cache, cstale>>
      BY DEF JobInvalid, JobDone, JobCreate, reconcileVars
<1>2. Shapes
      BY DEF CopyInv
<1>3. CASE JobInvalid(j)
  <2>1. rec' = Recorded(Taken(j), j, NoId, "Failed")
        BY <1>3 DEF JobInvalid
  <2>2. DOMAIN Taken(j) = DOMAIN Resting /\ DOMAIN Taken(j).inst = DOMAIN Absent
        BY <1>2, TakenKeeps DEF Shapes
  <2>3. /\ DOMAIN rec' = DOMAIN rec /\ DOMAIN rec'.inst = DOMAIN rec.inst
        /\ rec'.active = rec.active /\ rec'.stale = rec.stale /\ Same(rec'.inst, rec.inst)
        BY <1>2, <2>1, <2>2, TakenKeeps, RecordedKeeps
  <2> QED BY <1>1, <2>3, CopyGoesOn
<1>4. CASE JobDone(j)
  <2>1. PICK id : rec' = [Taken(j) EXCEPT !.dels = {id}]
        BY <1>4 DEF JobDone
  <2>2. /\ DOMAIN rec' = DOMAIN Taken(j) /\ rec'.inst = Taken(j).inst
        /\ rec'.active = Taken(j).active /\ rec'.stale = Taken(j).stale
        BY <1>2, <2>1, TakenKeeps DEF Shapes, Resting
  <2> QED BY <1>1, <1>2, <2>2, TakenKeeps, CopyGoesOn DEF Same
<1>5. CASE JobCreate(j)
  <2>1. rec' = Taken(j)
        BY <1>5 DEF JobCreate
  <2> QED BY <1>1, <1>2, <2>1, TakenKeeps, CopyGoesOn DEF Same
<1> QED BY <1>3, <1>4, <1>5

LEMMA CallCopies ==
    ASSUME CopyInv, Submit \/ Refuse \/ Compare
    PROVE  CopyInv'
<1>1. UNCHANGED <<obj, cache, cstale>>
      BY DEF Submit, Refuse, Compare, reconcileVars
<1>2. \/ UNCHANGED rec
      \/ \E j, id, state : rec' = Recorded(rec, j, id, state)
      BY DEF Submit, Refuse, Compare, Record
<1>3. CASE UNCHANGED rec
      BY <1>1, <1>3, CopyStutter
<1>4. ASSUME NEW j, NEW id, NEW state, rec' = Recorded(rec, j, id, state)
      PROVE  CopyInv'
      BY <1>1, <1>4, RecordedKeeps, CopyGoesOn DEF CopyInv, Shapes
<1> QED BY <1>2, <1>3, <1>4

LEMMA DeleteCopies ==
    ASSUME CopyInv, NEW id, DeleteOne(id)
    PROVE  CopyInv'
<1>1. rec' = [rec EXCEPT !.dels = @ \ {id}] /\ UNCHANGED <<obj, cache, cstale>>
      BY DEF DeleteOne, reconcileVars
<1>2. /\ DOMAIN rec' = DOMAIN rec /\ rec'.inst = rec.inst
      /\ rec'.active = rec.active /\ rec'.stale = rec.stale
      BY <1>1 DEF CopyInv, Shapes, Resting
<1> QED BY <1>1, <1>2, CopyGoesOn DEF Same

LEMMA ReconcileCopies == CopyInv /\ Reconcile => CopyInv'
<1> SUFFICES ASSUME CopyInv, Reconcile PROVE CopyInv'
    OBVIOUS
<1>1. CASE ReadGone \/ ManagerStep
      BY <1>1, CopyStutter DEF ReadGone, ManagerStep, reconcileVars
<1>2. CASE Skip \/ Conflict
      BY <1>2, CopyRest DEF Skip, Conflict, reconcileVars
<1> QED BY <1>1, <1>2, ReadCopies, UpdateCopies, JobCopies, CallCopies, DeleteCopies
        DEF Reconcile

LEMMA CopyStep == CopyInv /\ [Next]_vars => CopyInv'
<1> SUFFICES ASSUME CopyInv, [Next]_vars PROVE CopyInv'
    OBVIOUS
<1>1. CASE Sync
      BY <1>1 DEF Sync, CopyInv, Shapes
<1>2. CASE Resync
      BY <1>2, CopyStutter DEF Resync
<1>3. CASE UpdateFails
      BY <1>3, CopyRest DEF UpdateFails
<1>4. ASSUME NEW id \in AllIds, Fire(id) \/ HandleResult(id) \/ PatchLost(id)
      PROVE  CopyInv'
      BY <1>4, CopyStutter DEF Fire, HandleResult, PatchLost
<1>5. ASSUME NEW id \in AllIds, Patch(id)
      PROVE  CopyInv'
  <2> DEFINE o == [obj EXCEPT !.conds = run[id].conds]
  <2>1. DOMAIN o = DOMAIN Absent
        BY DEF CopyInv, Shapes
  <2> QED BY <1>5, <2>1, CopyVersioned DEF Patch
<1>6. ASSUME NEW p \in Passes, Tick(p) \/ GarbageCollect(p)
      PROVE  CopyInv'
      BY <1>6, CopyStutter DEF Tick, GarbageCollect, objectVars
<1>7. CASE Crash
      BY <1>7, RestingFields DEF Crash, CopyInv, Shapes
<1>8. CASE UNCHANGED vars
      BY <1>8, CopyStutter DEF vars
<1> QED BY <1>1, <1>2, <1>3, <1>4, <1>5, <1>6, <1>7, <1>8, UserCopies, ReconcileCopies
        DEF Next, Result

\* The cache and the instance in hand are the server's object unless marked stale.
THEOREM Copies == Spec => []CopyInv
BY CopyInit, CopyStep, PTL DEF Spec

-------------------------------------------------------------------------------
SpecOf(o) == <<o.jobs, o.params>>

\* Only the user's steps change the spec of the object.
LEMMA SpecStep == CopyInv /\ [Next]_vars => (SpecOf(obj') # SpecOf(obj) => User)
<1> SUFFICES ASSUME CopyInv, [Next]_vars, ~User PROVE SpecOf(obj') = SpecOf(obj)
    OBVIOUS
<1>1. CASE Reconcile
  <2>1. CASE Update
        BY <2>1, UpdateKeepsSpec DEF Same, SpecOf
  <2>2. ASSUME ~Update PROVE UNCHANGED obj
        BY <1>1, <2>2 DEF Reconcile, Read, ReadGone, DeleteOne, JobInvalid, JobDone, JobCreate,
           Submit, Refuse, Compare, ManagerStep, Skip, Conflict, reconcileVars
  <2> QED BY <2>1, <2>2 DEF SpecOf
<1>2. ASSUME NEW id \in AllIds, Patch(id)
      PROVE  SpecOf(obj') = SpecOf(obj)
      BY <1>2 DEF Patch, Versioned, CopyInv, Shapes, Absent, SpecOf
<1>3. ASSUME NEW id \in AllIds, Fire(id) \/ HandleResult(id) \/ PatchLost(id)
      PROVE  UNCHANGED obj
      BY <1>3 DEF Fire, HandleResult, PatchLost
<1>4. ASSUME NEW p \in Passes, Tick(p) \/ GarbageCollect(p)
      PROVE  UNCHANGED obj
      BY <1>4 DEF Tick, GarbageCollect, objectVars
<1>5. CASE Sync \/ Resync \/ UpdateFails \/ Crash \/ UNCHANGED vars
      BY <1>5 DEF Sync, Resync, UpdateFails, Crash, vars, SpecOf
<1> QED BY <1>1, <1>2, <1>3, <1>4, <1>5 DEF Next, Result, SpecOf

\* The worker writes whole objects but never takes back what a user wrote.
THEOREM EditsKept == Spec => NoLostEdit
<1>1. CopyInv /\ [Next]_vars => [<<obj'.jobs, obj'.params>> # <<obj.jobs, obj.params>> => User]_vars
      BY SpecStep DEF SpecOf
<1> QED BY <1>1, Copies, PTL DEF Spec, NoLostEdit

-------------------------------------------------------------------------------
\* The manager as CronManager describes it.

LEMMA ManagerThreads == R \in M!Threads /\ \A p \in Passes : p \in M!Threads
BY DEF M!Threads

\* Steps that leave the manager and the presence of the object alone.
LEMMA ManagerStutter ==
    ASSUME UNCHANGED <<managerVars, cache>>
    PROVE  UNCHANGED M!vars
BY DEF managerVars, M!vars

LEMMA SyncIsManagers == Sync => M!Next \/ UNCHANGED M!vars
<1> SUFFICES ASSUME Sync PROVE M!Next \/ UNCHANGED M!vars
    OBVIOUS
<1>1. UNCHANGED managerVars /\ cache' = obj
      BY DEF Sync
<1>2. CASE cache.there <=> cache'.there
      BY <1>1, <1>2 DEF managerVars, M!vars
<1>3. CASE cache.there /\ ~cache'.there
  <2>1. M!Vanish(Hpa)
        BY <1>1, <1>3 DEF managerVars, M!Vanish
  <2> QED BY <2>1 DEF M!Next
<1>4. CASE ~cache.there /\ cache'.there
  <2>1. M!Reappear(Hpa)
        BY <1>1, <1>4 DEF managerVars, M!Reappear
  <2> QED BY <2>1 DEF M!Next
<1> QED BY <1>2, <1>3, <1>4

LEMMA JobIsManagers ==
    ASSUME NEW j \in JobSpecs, JobInvalid(j) \/ JobDone(j) \/ JobCreate(j)
    PROVE  M!Next \/ UNCHANGED M!vars
<1>1. CASE JobInvalid(j) \/ JobDone(j)
      BY <1>1, ManagerStutter DEF JobInvalid, JobDone, reconcileVars
<1>2. CASE JobCreate(j)
  <2> DEFINE call(id) == [id |-> id, work |-> [job |-> j, params |-> rec.inst.params]]
  <2>1. PICK id \in AllIds : M!CreateLoad(call(id))
        BY <1>2 DEF JobCreate
  <2>2. rec.inst.params \in Params
        BY <1>2, HPAAssumption DEF JobCreate
  <2>3. call(id) \in M!Jobs
        BY <2>2 DEF M!Jobs, Works
  <2>4. \E k \in M!Jobs : M!CreateLoad(k)
    <3> HIDE DEF call
    <3> QED BY <2>1, <2>3
  <2> QED BY <2>4 DEF M!Next
<1> QED BY <1>1, <1>2

LEMMA ReconcileIsManagers == Reconcile => M!Next \/ UNCHANGED M!vars
<1> SUFFICES ASSUME Reconcile PROVE M!Next \/ UNCHANGED M!vars
    OBVIOUS
<1>1. CASE Read \/ Skip \/ Update \/ Conflict
      BY <1>1, ManagerStutter DEF Read, Skip, Update, Conflict, reconcileVars
<1>2. CASE ReadGone
      BY <1>2 DEF ReadGone, M!Next
<1>3. ASSUME NEW id \in AllIds, DeleteOne(id)
      PROVE  M!Next \/ UNCHANGED M!vars
  <2>1. M!CallDelete(id) \/ UNCHANGED <<managerVars, cache>>
        BY <1>3 DEF DeleteOne, reconcileVars
  <2> QED BY <2>1, ManagerStutter DEF M!Next
<1>4. CASE Submit \/ Refuse \/ Compare
      BY <1>4 DEF Submit, Refuse, Compare, M!Next, M!Create
<1>5. CASE ManagerStep
      BY <1>5, ManagerThreads DEF ManagerStep, M!Next, M!Create, M!Delete
<1> QED BY <1>1, <1>2, <1>3, <1>4, <1>5, JobIsManagers DEF Reconcile

LEMMA ManagerIsRefined == [Next]_vars => [M!Next]_(M!vars)
<1> SUFFICES ASSUME [Next]_vars PROVE M!Next \/ UNCHANGED M!vars
    OBVIOUS
<1>1. CASE User \/ Resync \/ UpdateFails
      BY <1>1, ManagerStutter DEF User, UserEdit, UserDelete, UserCreate, Resync, UpdateFails
<1>2. ASSUME NEW id \in AllIds, Fire(id) \/ Result(id)
      PROVE  UNCHANGED M!vars
      BY <1>2, ManagerStutter DEF Fire, Result, HandleResult, Patch, PatchLost
<1>3. ASSUME NEW p \in Passes, Tick(p) \/ GarbageCollect(p)
      PROVE  M!Next
      BY <1>3, ManagerThreads DEF Tick, GarbageCollect, M!Next, M!Delete
<1>4. CASE Crash
      BY <1>4 DEF Crash, M!Next
<1>5. CASE UNCHANGED vars
      BY <1>5, ManagerStutter DEF vars
<1> QED BY <1>1, <1>2, <1>3, <1>4, <1>5, SyncIsManagers, ReconcileIsManagers DEF Next

\* The composition implements CronManager.
THEOREM ManagerRefined == Spec => ImplementsManager
<1>1. Init => M!Init
      BY DEF Init
<1> QED BY <1>1, ManagerIsRefined, PTL DEF Spec, ImplementsManager, M!Spec
-------------------------------------------------------------------------------
\* TypeOK.  The manager's part comes from CronManager: its type invariant is kept
\* by all steps of M, and every step here is one (ManagerIsRefined).  MP is that
\* module with its theorems; it and M describe the same steps.

MP == INSTANCE CronManagerProofs WITH
        Ids <- AllIds,
        Hpas <- {Hpa},
        Owner <- [i \in AllIds |-> Hpa],
        Parses <- {w \in Works : w.job.plan \in GoodPlans},
        Compared <- [w \in Works |-> <<w.job.plan, RefOf[w.params]>>],
        Returning <- {Hpa},
        SpuriousMiss <- FALSE,
        present <- IF cache.there THEN {Hpa} ELSE {}

LEMMA Assumed == MP!ManagerAssumption
BY HPAAssumption DEF MP!ManagerAssumption

LEMMA SameTypes == (M!TypeOK <=> MP!TypeOK) /\ (M!TypeOK' <=> MP!TypeOK')
BY DEF M!TypeOK, MP!TypeOK, M!JobMap, MP!JobMap, M!Jobs, MP!Jobs, M!PCs, MP!PCs, M!Threads,
   MP!Threads

LEMMA SameCreate == M!Create => MP!Create
BY DEF M!Create, M!CreateAdd, M!CreateStore, M!CreateAgain, M!UpdateRemove, M!UpdateAdd,
   M!UpdateStore, M!AddJob, M!RemoveJob, M!Store, M!Equals, M!ContinueIf, M!Return, M!Goto,
   M!Table!Scheduled, M!Table!Unscheduled,
   MP!Create, MP!CreateAdd, MP!CreateStore, MP!CreateAgain, MP!UpdateRemove, MP!UpdateAdd,
   MP!UpdateStore, MP!AddJob, MP!RemoveJob, MP!Store, MP!Equals, MP!ContinueIf, MP!Return,
   MP!Goto, MP!Table!Scheduled, MP!Table!Unscheduled

LEMMA SameCalls ==
    /\ \A j : M!CreateLoad(j) => MP!CreateLoad(j)
    /\ \A id : M!CallDelete(id) => MP!CallDelete(id)
    /\ \A t : M!Delete(t) => MP!Delete(t)
BY DEF M!CreateLoad, M!CallDelete, M!Delete, M!DeleteRemove, M!DeleteDrop, M!RemoveJob, M!Return,
   M!Goto, M!Table!Unscheduled,
   MP!CreateLoad, MP!CallDelete, MP!Delete, MP!DeleteRemove, MP!DeleteDrop, MP!RemoveJob,
   MP!Return, MP!Goto, MP!Table!Unscheduled

LEMMA SamePasses ==
    ASSUME NEW p, M!GCStart(p) \/ M!Collect(p) \/ M!GCGetError(p)
    PROVE  MP!GCStart(p) \/ MP!Collect(p) \/ MP!GCGetError(p)
BY DEF M!GCStart, M!Collect, M!GCGetError, M!GCVisit, M!GCEnd, M!GCFind, M!GCGetNotFound,
   M!GCGetExists, M!GCRemove, M!GCAdd, M!DeleteLoad, M!AddJob, M!RemoveJob, M!ContinueIf, M!Return,
   M!Goto, M!Table!Scheduled, M!Table!Unscheduled,
   MP!GCStart, MP!Collect, MP!GCGetError, MP!GCVisit, MP!GCEnd, MP!GCFind, MP!GCGetNotFound,
   MP!GCGetExists, MP!GCRemove, MP!GCAdd, MP!DeleteLoad, MP!AddJob, MP!RemoveJob, MP!ContinueIf,
   MP!Return, MP!Goto, MP!Table!Scheduled, MP!Table!Unscheduled

LEMMA SameWorld ==
    /\ \A h : M!Vanish(h) \/ M!Reappear(h) => MP!Vanish(h) \/ MP!Reappear(h)
    /\ M!Restart => MP!Restart
BY DEF M!Vanish, M!Reappear, M!Restart, M!Threads, MP!Vanish, MP!Reappear, MP!Restart, MP!Threads

LEMMA ManagerTypes == M!TypeOK /\ [Next]_vars => M!TypeOK'
<1> SUFFICES ASSUME M!TypeOK, [Next]_vars PROVE M!TypeOK'
    OBVIOUS
<1>1. M!Next => MP!Next
  <2> SUFFICES ASSUME M!Next PROVE MP!Next
      OBVIOUS
  <2>1. ASSUME NEW j \in M!Jobs, M!CreateLoad(j)
        PROVE  MP!Next
    <3>1. j \in MP!Jobs
          BY DEF M!Jobs, MP!Jobs
    <3> QED BY <2>1, <3>1, SameCalls DEF MP!Next
  <2>2. ASSUME NEW id \in AllIds, M!CallDelete(id)
        PROVE  MP!Next
        BY <2>2, SameCalls DEF MP!Next
  <2>3. ASSUME NEW t \in M!Threads, M!Delete(t)
        PROVE  MP!Next
    <3>1. t \in MP!Threads
          BY DEF M!Threads, MP!Threads
    <3> QED BY <2>3, <3>1, SameCalls DEF MP!Next
  <2>4. ASSUME NEW p \in Passes, M!GCStart(p) \/ M!Collect(p) \/ M!GCGetError(p)
        PROVE  MP!Next
    <3>1. MP!GCStart(p) \/ MP!Collect(p) \/ MP!GCGetError(p)
          BY <2>4, SamePasses
    <3> QED BY <3>1 DEF MP!Next
  <2>5. ASSUME NEW h \in {Hpa}, M!Vanish(h) \/ M!Reappear(h)
        PROVE  MP!Next
        BY <2>5, SameWorld DEF MP!Next
  <2>6. CASE M!Create \/ M!Restart
        BY <2>6, SameCreate, SameWorld DEF MP!Next
  <2> QED BY <2>1, <2>2, <2>3, <2>4, <2>5, <2>6 DEF M!Next
<1>2. UNCHANGED M!vars => UNCHANGED MP!vars
      BY DEF M!vars, MP!vars
<1>3. [MP!Next]_(MP!vars)
      BY <1>1, <1>2, ManagerIsRefined
<1>4. MP!TypeOK'
      BY <1>3, SameTypes, Assumed, MP!TypeStep DEF MP!TypeStep
<1> QED BY <1>4, SameTypes
-------------------------------------------------------------------------------
\* The rest of the state.

Runs == [at : {"none", "running", "patching"}, job : M!Jobs \cup {NoJob},
         conds : SUBSET Conditions]

\* The reconcile in progress is r.
RecTypes(r) ==
    /\ r.inst \in Objects
    /\ r.dels \subseteq AllIds
    /\ r.jobs \subseteq r.inst.jobs
    /\ r.kept \subseteq Conditions

CTypes ==
    /\ obj \in Objects /\ cache \in Objects
    /\ due \in BOOLEAN
    /\ RecTypes(rec)
    /\ run \in [AllIds -> Runs]
    /\ \A i \in AllIds : run[i].at = "running" => run[i].job \in M!Jobs
    /\ ran \in [AllIds -> 0..2]

LEMMA AbsentIsObject == Absent \in Objects
BY DEF Absent, Objects

LEMMA CreatedIsObject ==
    ASSUME NEW jobs \in JobLists, NEW params \in Params
    PROVE  Created(jobs, params) \in Objects
BY HPAAssumption DEF Created, Absent, Objects

LEMMA RestingTypes == RecTypes(Resting) /\ DOMAIN Resting = Fields
BY AbsentIsObject DEF RecTypes, Resting, Fields

LEMMA NoRunIsRun == NoRun \in Runs /\ NoRun.at # "running"
BY DEF NoRun, Runs

LEMMA TypesInit == Init => CTypes
<1> SUFFICES ASSUME Init PROVE CTypes
    OBVIOUS
<1>1. obj \in Objects /\ cache = obj /\ due \in BOOLEAN
      BY CreatedIsObject DEF Init
<1>2. RecTypes(rec)
      BY RestingTypes DEF Init
<1>3. run = [i \in AllIds |-> NoRun] /\ ran = [i \in AllIds |-> 0]
      BY DEF Init
<1> QED BY <1>1, <1>2, <1>3, NoRunIsRun DEF CTypes

\* A step of the worker or of the users that changes no run.
LEMMA RunsKept ==
    ASSUME CTypes, UNCHANGED run, ran' \in [AllIds -> 0..2],
           obj' \in Objects, cache' \in Objects, due' \in BOOLEAN, RecTypes(rec')
    PROVE  CTypes'
<1>1. M!Jobs' = M!Jobs /\ Runs' = Runs
      BY DEF M!Jobs, Runs
<1> QED BY <1>1 DEF CTypes, RecTypes

\* Any step, runs included.
LEMMA EachTyped ==
    ASSUME CTypes, obj' \in Objects, cache' \in Objects, due' \in BOOLEAN, RecTypes(rec'),
           run' \in [AllIds -> Runs], ran' \in [AllIds -> 0..2],
           \A i \in AllIds : run'[i].at = "running" => run'[i].job \in M!Jobs
    PROVE  CTypes'
BY DEF CTypes, RecTypes

\* A condition of job j with any identifier and state is a condition.
LEMMA RecordedTypes ==
    ASSUME NEW r, DOMAIN r = Fields, RecTypes(r),
           NEW j \in JobSpecs, NEW id \in AllIds, NEW state \in Final \cup {"Submitted"}
    PROVE  RecTypes(Recorded(r, j, id, state))
<1> DEFINE c == [job |-> j, id |-> id, state |-> state]
           conds == {d \in r.inst.conds : d.job.name # j.name} \cup {c}
           s == Recorded(r, j, id, state)
<1>1. c \in Conditions
      BY DEF Conditions
<1>2. r.inst.conds \subseteq Conditions /\ r.inst \in Objects
      BY DEF RecTypes, Objects
<1>3. conds \in SUBSET Conditions
      BY <1>1, <1>2
<1>4. /\ s.inst = [r.inst EXCEPT !.conds = conds]
      /\ s.dels = r.dels /\ s.jobs = r.jobs /\ s.kept = r.kept
      BY DEF Recorded, Fields
<1>5. [r.inst EXCEPT !.conds = conds] \in Objects /\ s.inst.jobs = r.inst.jobs
  <2> HIDE DEF conds, s
  <2> QED BY <1>2, <1>3, <1>4 DEF Objects
<1> QED BY <1>4, <1>5 DEF RecTypes

LEMMA VersionedTypes ==
    ASSUME CTypes, Shapes, NEW o \in Objects, Versioned(o)
    PROVE  obj' \in Objects /\ RecTypes(rec')
<1>1. DOMAIN rec = Fields
      BY DEF Shapes, Resting, Fields
<1> QED BY <1>1 DEF Versioned, CTypes, RecTypes, Fields

-------------------------------------------------------------------------------
\* The steps.

LEMMA RecFields == Shapes => DOMAIN rec = Fields
BY DEF Shapes, Resting, Fields

LEMMA UserTypes == CTypes /\ Shapes /\ User => CTypes'
<1> SUFFICES ASSUME CTypes, Shapes, User PROVE CTypes'
    OBVIOUS
<1>1. ASSUME NEW jobs \in JobLists, NEW params \in Params, UserEdit(jobs, params)
      PROVE  CTypes'
  <2> DEFINE o == [obj EXCEPT !.jobs = jobs, !.params = params]
  <2>1. o \in Objects
        BY HPAAssumption DEF CTypes, Objects
  <2>2. obj' \in Objects /\ RecTypes(rec')
    <3> HIDE DEF o
    <3> QED BY <1>1, <2>1, VersionedTypes DEF UserEdit, o
  <2> QED BY <1>1, <2>2, RunsKept DEF UserEdit, CTypes
<1>2. CASE UserDelete
  <2>1. obj' \in Objects /\ RecTypes(rec')
        BY <1>2, AbsentIsObject, VersionedTypes DEF UserDelete
  <2> QED BY <1>2, <2>1, RunsKept DEF UserDelete, CTypes
<1>3. ASSUME NEW jobs \in JobLists, NEW params \in Params, UserCreate(jobs, params)
      PROVE  CTypes'
  <2>1. obj' \in Objects /\ RecTypes(rec')
        BY <1>3, CreatedIsObject, VersionedTypes DEF UserCreate
  <2> QED BY <1>3, <2>1, RunsKept DEF UserCreate, CTypes
<1> QED BY <1>1, <1>2, <1>3 DEF User

LEMMA ReadTypes == CTypes /\ Read => CTypes'
<1> SUFFICES ASSUME CTypes, Read PROVE CTypes'
    OBVIOUS
<1> DEFINE kept == {c \in cache.conds : ~GlobalChange /\ Unchanged(c)}
           expired == {c \in cache.conds : GlobalChange \/ Expired(c)}
           inst == [cache EXCEPT !.sparams = cache.params, !.conds = kept]
<1>1. cache.conds \subseteq Conditions
      BY DEF CTypes, Objects
<1>2. inst \in Objects /\ inst.jobs = cache.jobs
      BY <1>1 DEF CTypes, Objects
<1>3. {c.id : c \in expired} \ {NoId} \in SUBSET AllIds
      BY <1>1 DEF Conditions
<1>4. /\ rec'.inst = inst /\ rec'.dels = {c.id : c \in expired} \ {NoId}
      /\ rec'.jobs = cache.jobs /\ rec'.kept = kept
      BY DEF Read, Resting
<1>5. RecTypes(rec')
      BY <1>1, <1>2, <1>3, <1>4 DEF RecTypes
<1> QED BY <1>5, RunsKept DEF Read, CTypes, Popped

\* A step of the worker that leaves the object and the runs alone.
LEMMA WorkTypes ==
    ASSUME CTypes, UNCHANGED reconcileVars, ran' \in [AllIds -> 0..2], RecTypes(rec')
    PROVE  CTypes'
BY RunsKept DEF CTypes, reconcileVars

LEMMA TakenTypes ==
    ASSUME CTypes, Shapes, NEW j
    PROVE  RecTypes(Taken(j)) /\ DOMAIN Taken(j) = Fields /\ Taken(j).kept = rec.kept
BY RecFields DEF Taken, CTypes, RecTypes, Fields

LEMMA JobTypes ==
    ASSUME CTypes, Shapes, NEW j \in JobSpecs, JobInvalid(j) \/ JobDone(j) \/ JobCreate(j)
    PROVE  CTypes'
<1>1. UNCHANGED reconcileVars
      BY DEF JobInvalid, JobDone, JobCreate
<1>2. CASE JobInvalid(j)
  <2>1. RecTypes(Recorded(Taken(j), j, NoId, "Failed"))
        BY TakenTypes, RecordedTypes DEF AllIds, Final
  <2> QED BY <1>1, <1>2, <2>1, WorkTypes DEF JobInvalid, CTypes
<1>3. CASE JobDone(j)
  <2>1. PICK c \in KeptOf(j) : rec' = [Taken(j) EXCEPT !.dels = {c.id}]
        BY <1>3 DEF JobDone
  <2>2. c.id \in AllIds
        BY DEF KeptOf, CTypes, RecTypes, Conditions
  <2>3. RecTypes(rec')
        BY <2>1, <2>2, TakenTypes DEF RecTypes, Fields
  <2> QED BY <1>1, <1>3, <2>3, WorkTypes DEF JobDone, CTypes
<1>4. CASE JobCreate(j)
  <2>1. rec' = Taken(j) /\ ran' \in [AllIds -> 0..2]
        BY <1>4 DEF JobCreate, CTypes
  <2> QED BY <1>1, <2>1, TakenTypes, WorkTypes
<1> QED BY <1>2, <1>3, <1>4

LEMMA CallTypes ==
    ASSUME CTypes, Shapes, M!TypeOK, Submit \/ Refuse \/ Compare
    PROVE  CTypes'
<1>1. UNCHANGED <<reconcileVars, ran>>
      BY DEF Submit, Refuse, Compare
<1>2. arg[R] \in M!Jobs
      BY DEF Submit, Refuse, Compare, M!TypeOK, M!Threads
<1>3. arg[R].work.job \in JobSpecs /\ arg[R].id \in AllIds
      BY <1>2 DEF M!Jobs, Works
<1>4. \/ UNCHANGED rec
      \/ \E state \in Final \cup {"Submitted"} :
            rec' = Recorded(rec, arg[R].work.job, arg[R].id, state)
      BY DEF Submit, Refuse, Compare, Record, Final
<1>5. RecTypes(rec')
      BY <1>3, <1>4, RecordedTypes, RecFields DEF CTypes
<1> QED BY <1>1, <1>5, WorkTypes DEF CTypes

LEMMA DeleteTypes ==
    ASSUME CTypes, Shapes, NEW id, DeleteOne(id)
    PROVE  CTypes'
<1>1. RecTypes(rec')
      BY RecFields DEF DeleteOne, CTypes, RecTypes, Fields
<1> QED BY <1>1, WorkTypes DEF DeleteOne, CTypes

LEMMA UpdateTypes == CTypes /\ Update => CTypes'
BY RestingTypes, RunsKept DEF Update, CTypes, RecTypes

LEMMA ReconcileTypes == CTypes /\ Shapes /\ M!TypeOK /\ Reconcile => CTypes'
<1> SUFFICES ASSUME CTypes, Shapes, M!TypeOK, Reconcile PROVE CTypes'
    OBVIOUS
<1>1. CASE ReadGone
      BY <1>1, RunsKept DEF ReadGone, Popped, CTypes, RecTypes
<1>2. CASE ManagerStep
      BY <1>2, WorkTypes DEF ManagerStep, CTypes, RecTypes
<1>3. CASE Skip \/ Conflict
      BY <1>3, RestingTypes, WorkTypes DEF Skip, Conflict, CTypes
<1> QED BY <1>1, <1>2, <1>3, ReadTypes, DeleteTypes, JobTypes, CallTypes, UpdateTypes
        DEF Reconcile

\* A job is counted once more, up to two.
LEMMA RanTypes ==
    ASSUME CTypes, NEW id \in AllIds, NEW once, Ran(id, once)
    PROVE  ran' \in [AllIds -> 0..2]
BY DEF Ran, CTypes

LEMMA FireTypes ==
    ASSUME CTypes, M!TypeOK, NEW id \in AllIds, Fire(id)
    PROVE  CTypes'
<1>1. engine[id] \in M!Jobs
      BY DEF Fire, M!TypeOK, M!JobMap
<1> DEFINE new == [at |-> "running", job |-> engine[id], conds |-> {}]
<1>2. new \in Runs /\ new.at = "running" /\ new.job = engine[id]
      BY <1>1 DEF Runs
<1>3. run' = [run EXCEPT ![id] = new]
      BY DEF Fire
<1>4. /\ run' \in [AllIds -> Runs]
      /\ \A i \in AllIds : run'[i].at = "running" => run'[i].job \in M!Jobs
  <2> HIDE DEF new
  <2> QED BY <1>1, <1>2, <1>3 DEF CTypes
<1>5. ran' \in [AllIds -> 0..2]
      BY RanTypes DEF Fire
<1> QED BY <1>4, <1>5, EachTyped DEF Fire, CTypes

LEMMA NoRunTypes ==
    ASSUME CTypes, NEW id \in AllIds, run' = [run EXCEPT ![id] = NoRun]
    PROVE  /\ run' \in [AllIds -> Runs]
           /\ \A i \in AllIds : run'[i].at = "running" => run'[i].job \in M!Jobs
BY NoRunIsRun DEF CTypes

LEMMA HandleTypes ==
    ASSUME CTypes, NEW id \in AllIds, HandleResult(id)
    PROVE  CTypes'
<1> DEFINE done == run[id].job
           conds(state) == {c \in cache.conds : c.id # id /\ c.job.name # done.work.job.name}
                           \cup {[job |-> done.work.job, id |-> id, state |-> state]}
           new(state) == IF cache.there
                         THEN [at |-> "patching", job |-> NoJob, conds |-> conds(state)]
                         ELSE NoRun
<1>1. PICK state \in Final : run' = [run EXCEPT ![id] = new(state)]
      BY DEF HandleResult
<1>2. done.work.job \in JobSpecs
      BY DEF HandleResult, CTypes, M!Jobs, Works
<1>3. conds(state) \in SUBSET Conditions
      BY <1>2 DEF Conditions, CTypes, Objects
<1>4. new(state) \in Runs /\ new(state).at # "running"
  <2> HIDE DEF conds
  <2> QED BY <1>3, NoRunIsRun DEF Runs
<1>5. /\ run' \in [AllIds -> Runs]
      /\ \A i \in AllIds : run'[i].at = "running" => run'[i].job \in M!Jobs
  <2> HIDE DEF new
  <2> QED BY <1>1, <1>4 DEF CTypes
<1> QED BY <1>5, EachTyped DEF HandleResult, CTypes

LEMMA PatchTypes ==
    ASSUME CTypes, Shapes, NEW id \in AllIds, Patch(id) \/ PatchLost(id)
    PROVE  CTypes'
<1>1. run' = [run EXCEPT ![id] = NoRun] /\ UNCHANGED <<cache, due, ran>>
      BY DEF Patch, PatchLost
<1>2. CASE Patch(id)
  <2> DEFINE o == [obj EXCEPT !.conds = run[id].conds]
  <2>1. o \in Objects
        BY DEF CTypes, Objects, Runs
  <2>2. obj' \in Objects /\ RecTypes(rec')
    <3>1. Versioned(o)
          BY <1>2 DEF Patch
    <3> HIDE DEF o
    <3> QED BY <2>1, <3>1, VersionedTypes
  <2> QED BY <1>1, <2>2, NoRunTypes, EachTyped DEF CTypes
<1>3. CASE PatchLost(id)
      BY <1>1, <1>3, NoRunTypes, EachTyped DEF PatchLost, CTypes
<1> QED BY <1>2, <1>3

LEMMA PassTypes ==
    ASSUME CTypes, M!TypeOK, NEW p \in Passes, Tick(p) \/ GarbageCollect(p)
    PROVE  CTypes'
<1>1. UNCHANGED objectVars
      BY DEF Tick, GarbageCollect
<1>2. ran' \in [AllIds -> 0..2]
  <2>1. CASE UNCHANGED ran
        BY <2>1 DEF CTypes
  <2>2. ASSUME pc[p] = "g_get", Ran(arg[p].id, arg[p].work.job.once)
        PROVE  ran' \in [AllIds -> 0..2]
    <3>1. arg[p].id \in AllIds
          BY <2>2 DEF M!TypeOK, M!Threads, M!Jobs
    <3> QED BY <2>2, <3>1, RanTypes
  <2> QED BY <2>1, <2>2 DEF Tick, GarbageCollect
<1> QED BY <1>1, <1>2, RunsKept DEF objectVars, CTypes, RecTypes

LEMMA CrashTypes == CTypes /\ Crash => CTypes'
<1> SUFFICES ASSUME CTypes, Crash PROVE CTypes'
    OBVIOUS
<1>1. run' = [i \in AllIds |-> NoRun]
      BY DEF Crash
<1>2. obj'.there \in BOOLEAN
      BY DEF Crash, CTypes, Objects
<1> QED BY <1>1, <1>2, NoRunIsRun, RestingTypes, EachTyped DEF Crash, CTypes

LEMMA TypesStep == CTypes /\ CopyInv /\ M!TypeOK /\ [Next]_vars => CTypes'
<1> SUFFICES ASSUME CTypes, Shapes, M!TypeOK, [Next]_vars PROVE CTypes'
    BY DEF CopyInv
<1>1. CASE Sync \/ Resync \/ UNCHANGED vars
      BY <1>1, RunsKept DEF Sync, Resync, vars, CTypes, RecTypes
<1>2. CASE UpdateFails
      BY <1>2, RestingTypes, RunsKept DEF UpdateFails, CTypes
<1> QED BY <1>1, <1>2, UserTypes, ReconcileTypes, FireTypes, HandleTypes, PatchTypes, PassTypes,
        CrashTypes DEF Next, Result

\* All that is known of the state, in the form later proofs use.
THEOREM AllTyped == Spec => [](CopyInv /\ CTypes /\ M!TypeOK)
<1>1. Init => M!TypeOK
  <2>1. M!Init => MP!TypeOK
        BY Assumed, MP!TypeInit DEF MP!TypeInit, M!Init, MP!Init, M!Threads, MP!Threads
  <2> QED BY <2>1, SameTypes DEF Init
<1> QED BY <1>1, CopyInit, CopyStep, TypesInit, TypesStep, ManagerTypes, PTL DEF Spec

-------------------------------------------------------------------------------
\* Every state of the system has its type: the copies of the object, the work of
\* the reconcile in progress, the runs and what the manager keeps.
THEOREM Types == Spec => []TypeOK
<1>1. CTypes /\ CopyInv /\ M!TypeOK => TypeOK
      BY DEF CTypes, RecTypes, CopyInv, TypeOK, Runs
<1> QED BY <1>1, AllTyped, PTL

-------------------------------------------------------------------------------
(***************************************************************************)
(* What holds once the controller has caught up: the status describes the  *)
(* spec (StatusMatchesSpec).                                               *)
(*                                                                         *)
(* The reconcile in progress carries the argument.  Each job of the spec   *)
(* it has read is still to be handled, or in a call of the manager, or has *)
(* a condition; and its instance may be written only while it is the       *)
(* server's.  When it is not, the informer or the work queue holds a       *)
(* reason for another reconcile.                                           *)
(***************************************************************************)

Named(conds) == \A c, d \in conds : c.job.name = d.job.name => c = d

Distinct(jobs) == \A j, k \in jobs : j.name = k.name => j = k

\* Wherever conditions are, their names are unique.
NamesInv ==
    /\ Named(obj.conds) /\ Named(cache.conds) /\ Named(rec.inst.conds)
    /\ \A i \in AllIds : Named(run[i].conds)

CallPCs == {"c_add", "c_store", "c_again", "u_remove", "u_add", "u_store"}

\* The worker is in createOrUpdate with job j.
Calling(j) == pc[R] \in CallPCs /\ arg[R].work.job = j

\* What the worker is doing.
WorkInv ==
    /\ pc[R] # "idle" => rec.active
    /\ pc[R] \in CallPCs => arg[R].work.job \in rec.inst.jobs
    /\ pc[R] \in {"c_again", "u_remove"} => KeptOf(arg[R].work.job) # {}
    /\ rec.active /\ Distinct(rec.inst.jobs) =>
          \A j \in rec.inst.jobs :
              j \in rec.jobs \/ Calling(j) \/ \E c \in rec.inst.conds : c.job = j

\* What it has read and what it is about to write.
InstInv ==
    rec.active =>
        /\ rec.inst.there /\ rec.inst.sparams = rec.inst.params
        /\ \A c \in rec.inst.conds \cup rec.kept : c.job \in rec.inst.jobs
        /\ \A c \in rec.kept : \E d \in rec.inst.conds : d.job.name = c.job.name
        /\ rec.noNeed => rec.inst.conds = rec.kept
        /\ rec.stale => cstale \/ due
        /\ ~rec.stale /\ ~rec.moved => rec.kept = obj.conds
        /\ ~rec.stale /\ rec.kept # {} => obj.sparams = obj.params

\* The status of o describes its spec.
Matching(o) ==
    /\ o.jobs # {} => o.sparams = o.params
    /\ {c.job : c \in o.conds} = o.jobs
    /\ Named(o.conds)

AtRest == ~cstale /\ ~due /\ ~rec.active

\* Between reconciles, if no write fails but by a conflict.
RestInv == Budget["errors"] = 0 /\ AtRest /\ obj.there /\ Unambiguous => Matching(obj)

StatusInv ==
    /\ NamesInv
    /\ WorkInv
    /\ InstInv
    /\ RestInv

\* What the environment is not given it never has.
Spent ==
    /\ DOMAIN budget = DOMAIN Budget
    /\ \A what \in DOMAIN Budget : Budget[what] = 0 => budget[what] = 0

\* What the lemmas take for granted.
Typed == CopyInv /\ CTypes /\ M!TypeOK /\ Spent

-------------------------------------------------------------------------------
\* The fields of the reconcile in progress.

LEMMA TakenFields ==
    ASSUME Shapes, NEW j
    PROVE  /\ DOMAIN Taken(j) = Fields
           /\ Taken(j).active = rec.active /\ Taken(j).dels = rec.dels
           /\ Taken(j).jobs = rec.jobs \ {j} /\ Taken(j).kept = rec.kept
           /\ Taken(j).noNeed = rec.noNeed /\ Taken(j).moved = rec.moved
           /\ Taken(j).stale = rec.stale /\ Taken(j).inst = rec.inst
BY RecFields DEF Taken, Fields

LEMMA RestingNames ==
    /\ ~Resting.active /\ Resting.inst = Absent /\ Resting.kept = {} /\ Resting.dels = {}
    /\ Absent.conds = {} /\ ~Absent.there /\ NoRun.conds = {} /\ NoRun.at = "none"
BY DEF Resting, Absent, NoRun

\* A condition that replaces the one of its name.
LEMMA ReplacedNamed ==
    ASSUME NEW conds, Named(conds), NEW c,
           NEW new, new \subseteq {d \in conds : d.job.name # c.job.name} \cup {c}
    PROVE  Named(new)
BY DEF Named

-------------------------------------------------------------------------------
\* Steps that leave the worker where it is.

LEMMA SpentStep == Spent /\ [Next]_vars => Spent'
<1> SUFFICES ASSUME Spent, [Next]_vars PROVE Spent'
    OBVIOUS
<1>1. CASE UNCHANGED budget
      BY <1>1 DEF Spent
<1>2. ASSUME NEW what, budget[what] > 0, budget' = [budget EXCEPT ![what] = @ - 1]
      PROVE  Spent'
  <2>1. Budget[what] # 0 \/ what \notin DOMAIN Budget
        BY <1>2 DEF Spent
  <2> QED BY <1>2, <2>1 DEF Spent
<1>3. ASSUME NEW what, Spend(what) PROVE Spent'
      BY <1>2, <1>3 DEF Spend
<1>4. CASE User
      BY <1>1, <1>3, <1>4 DEF User, UserEdit, UserDelete, UserCreate
<1>5. CASE Reconcile
      BY <1>1, <1>5 DEF Reconcile, Read, ReadGone, DeleteOne, JobInvalid, JobDone, JobCreate, Submit,
         Refuse, Compare, ManagerStep, Skip, Update, Conflict, reconcileVars
<1>6. CASE \E id \in AllIds : Fire(id) \/ Result(id)
      BY <1>1, <1>2, <1>3, <1>6 DEF Fire, Result, HandleResult, Patch, PatchLost
<1>7. CASE Sync \/ Resync \/ UpdateFails \/ Crash \/ UNCHANGED vars
      BY <1>1, <1>2, <1>3, <1>7 DEF Sync, Resync, UpdateFails, Crash, vars
<1>8. CASE \E p \in Passes : Tick(p) \/ GarbageCollect(p)
      BY <1>1, <1>3, <1>8 DEF Tick, GarbageCollect
<1> QED BY <1>4, <1>5, <1>6, <1>7, <1>8 DEF Next

\* No step of a pass is one of the worker.
LEMMA PassApart ==
    ASSUME M!TypeOK, NEW p \in Passes, Tick(p) \/ GarbageCollect(p)
    PROVE  pc'[R] = pc[R] /\ arg'[R] = arg[R]
<1>1. /\ p # R /\ R \in M!Threads /\ p \in M!Threads
      /\ pc \in [M!Threads -> M!PCs] /\ arg \in [M!Threads -> M!Jobs \cup {NoJob}]
      BY HPAAssumption DEF M!TypeOK, M!Threads
<1> QED BY <1>1 DEF Tick, GarbageCollect, M!GCStart, M!Collect, M!GCVisit, M!GCEnd, M!GCFind,
        M!GCGetNotFound, M!GCGetExists, M!GCRemove, M!GCAdd, M!DeleteLoad, M!DeleteRemove,
        M!DeleteDrop, M!ContinueIf, M!Return, M!Goto

LEMMA WorkStays ==
    ASSUME WorkInv, rec' = rec, pc'[R] = pc[R], arg'[R] = arg[R]
    PROVE  WorkInv'
BY DEF WorkInv, Calling, KeptOf

LEMMA InstStays ==
    ASSUME InstInv, UNCHANGED <<rec, obj>>, cstale \/ due => cstale' \/ due'
    PROVE  InstInv'
BY DEF InstInv

LEMMA RestStays ==
    ASSUME RestInv, UNCHANGED <<obj, rec>>, cstale \/ due => cstale' \/ due'
    PROVE  RestInv'
BY DEF RestInv, AtRest, Unambiguous

\* A new version of the object: everything in progress is stale.
LEMMA VersionedStatus ==
    ASSUME Typed, StatusInv, NEW o, Versioned(o), Named(o.conds),
           UNCHANGED <<cache, due, managerVars>>,
           \A i \in AllIds : Named(run'[i].conds)
    PROVE  StatusInv'
<1>1. /\ rec'.active = rec.active /\ rec'.stale = rec.active /\ rec'.inst = rec.inst
      /\ rec'.kept = rec.kept /\ rec'.jobs = rec.jobs /\ rec'.noNeed = rec.noNeed
      /\ obj' = o /\ cstale' = TRUE /\ pc' = pc /\ arg' = arg
      BY RecFields DEF Typed, CopyInv, Versioned, Fields, managerVars
<1>2. NamesInv'
      BY <1>1 DEF StatusInv, NamesInv
<1>3. WorkInv'
      BY <1>1 DEF StatusInv, WorkInv, Calling, KeptOf
<1>4. InstInv'
      BY <1>1 DEF StatusInv, InstInv
<1>5. RestInv'
      BY <1>1 DEF RestInv, AtRest
<1> QED BY <1>2, <1>3, <1>4, <1>5 DEF StatusInv

LEMMA UserStatus == Typed /\ StatusInv /\ User => StatusInv'
<1> SUFFICES ASSUME Typed, StatusInv, User PROVE StatusInv'
    OBVIOUS
<1>1. Named(obj.conds) /\ Named(Absent.conds) /\ \A i \in AllIds : Named(run[i].conds)
      BY RestingNames DEF StatusInv, NamesInv, Named
<1>2. ASSUME NEW jobs, NEW params, UserEdit(jobs, params)
      PROVE  StatusInv'
  <2> DEFINE o == [obj EXCEPT !.jobs = jobs, !.params = params]
  <2>1. o.conds = obj.conds
        BY DEF Typed, CopyInv, Shapes, Absent
  <2>2. Versioned(o)
        BY <1>2 DEF UserEdit
  <2> HIDE DEF o
  <2> QED BY <1>1, <1>2, <2>1, <2>2, VersionedStatus DEF UserEdit
<1>3. CASE UserDelete
      BY <1>1, <1>3, VersionedStatus DEF UserDelete
<1>4. ASSUME NEW jobs, NEW params, UserCreate(jobs, params)
      PROVE  StatusInv'
  <2>1. Created(jobs, params).conds = {}
        BY DEF Created, Absent
  <2>2. Named(Created(jobs, params).conds)
        BY <2>1 DEF Named
  <2> QED BY <1>1, <1>4, <2>2, VersionedStatus DEF UserCreate
<1> QED BY <1>2, <1>3, <1>4 DEF User

LEMMA ResultStatus ==
    ASSUME Typed, StatusInv, NEW id \in AllIds, Fire(id) \/ Result(id)
    PROVE  StatusInv'
<1>1. run \in [AllIds -> Runs] /\ \A i \in AllIds : Named(run[i].conds)
      BY DEF Typed, CTypes, StatusInv, NamesInv
<1>2. Named({})
      BY DEF Named
<1>3. \A i \in AllIds : Named(run'[i].conds)
  <2>1. CASE Fire(id) \/ Patch(id) \/ PatchLost(id)
    <3>1. /\ \A i \in AllIds \ {id} : run'[i] = run[i]
          /\ run'[id] = NoRun \/ run'[id].conds = {}
          BY <1>1, <2>1 DEF Fire, Patch, PatchLost
    <3> QED BY <1>1, <1>2, <3>1, RestingNames
  <2>2. CASE HandleResult(id)
    <3> DEFINE done == run[id].job
               conds(state) == {c \in cache.conds : c.id # id /\ c.job.name # done.work.job.name}
                               \cup {[job |-> done.work.job, id |-> id, state |-> state]}
    <3>1. PICK state \in Final : run'[id].conds \in {conds(state), {}}
          BY <1>1, <2>2, RestingNames DEF HandleResult
    <3>2. \A i \in AllIds \ {id} : run'[i] = run[i]
          BY <1>1, <2>2 DEF HandleResult
    <3>3. Named(conds(state))
      <4> DEFINE c == [job |-> done.work.job, id |-> id, state |-> state]
      <4>1. conds(state) \subseteq {d \in cache.conds : d.job.name # c.job.name} \cup {c}
            OBVIOUS
      <4>2. Named(cache.conds)
            BY DEF StatusInv, NamesInv
      <4> HIDE DEF c, conds
      <4> QED BY <4>1, <4>2, ReplacedNamed
    <3> QED BY <1>1, <1>2, <3>1, <3>2, <3>3
  <2> QED BY <2>1, <2>2 DEF Result
<1>5. CASE Patch(id)
  <2> DEFINE o == [obj EXCEPT !.conds = run[id].conds]
  <2>1. Named(o.conds)
        BY <1>1 DEF Typed, CopyInv, Shapes, Absent
  <2>2. Versioned(o)
        BY <1>5 DEF Patch
  <2> HIDE DEF o
  <2> QED BY <1>3, <1>5, <2>1, <2>2, VersionedStatus DEF Patch
<1>6. CASE Fire(id) \/ HandleResult(id) \/ PatchLost(id)
  <2>1. UNCHANGED <<obj, cache, cstale, due, rec, managerVars>>
        BY <1>6 DEF Fire, HandleResult, PatchLost
  <2>2. NamesInv'
        BY <1>3, <2>1 DEF StatusInv, NamesInv
  <2>3. pc' = pc /\ arg' = arg
        BY <2>1 DEF managerVars
  <2> QED BY <2>1, <2>2, <2>3, WorkStays, InstStays, RestStays DEF StatusInv
<1> QED BY <1>5, <1>6 DEF Result

\* The informer, the passes and steps that change nothing here.
LEMMA OutsideStatus ==
    ASSUME Typed, StatusInv,
           \/ Sync \/ Resync \/ UNCHANGED vars
           \/ \E p \in Passes : Tick(p) \/ GarbageCollect(p)
    PROVE  StatusInv'
<1>1. UNCHANGED <<obj, rec, run>> /\ (cstale \/ due => cstale' \/ due')
      BY DEF Sync, Resync, Tick, GarbageCollect, objectVars, vars
<1>2. cache' \in {cache, obj}
      BY DEF Sync, Resync, Tick, GarbageCollect, objectVars, vars
<1>3. pc'[R] = pc[R] /\ arg'[R] = arg[R]
      BY PassApart DEF Typed, Sync, Resync, vars, managerVars
<1>5. NamesInv'
      BY <1>1, <1>2 DEF StatusInv, NamesInv
<1> QED BY <1>1, <1>3, <1>5, WorkStays, InstStays, RestStays DEF StatusInv

-------------------------------------------------------------------------------
\* Reconcile.

LEMMA ReadGoneStatus == Typed /\ StatusInv /\ ReadGone => StatusInv'
<1> SUFFICES ASSUME Typed, StatusInv, ReadGone PROVE StatusInv'
    OBVIOUS
<1>1. /\ UNCHANGED <<obj, cache, cstale, rec, run, budget>>
      /\ ~rec.active /\ ~cache.there
      BY DEF ReadGone, Popped
<1>2. pc'[R] = pc[R] /\ arg'[R] = arg[R]
  <2>1. PICK p \in Passes : M!GCStart(p)
        BY DEF ReadGone
  <2>2. p # R /\ R \in M!Threads /\ pc \in [M!Threads -> M!PCs]
        BY HPAAssumption DEF Typed, M!TypeOK, M!Threads
  <2> QED BY <2>1, <2>2 DEF M!GCStart, M!Goto
<1>3. NamesInv' /\ InstInv'
      BY <1>1 DEF StatusInv, NamesInv, InstInv
<1>4. RestInv'
      BY <1>1 DEF RestInv, AtRest, Typed, CopyInv
<1> QED BY <1>1, <1>2, <1>3, <1>4, WorkStays DEF StatusInv

LEMMA ReadStatus == Typed /\ StatusInv /\ Read => StatusInv'
<1> SUFFICES ASSUME Typed, StatusInv, Read PROVE StatusInv'
    OBVIOUS
<1> DEFINE kept == {c \in cache.conds : ~GlobalChange /\ Unchanged(c)}
<1>1. /\ rec'.active /\ rec'.jobs = cache.jobs /\ rec'.kept = kept /\ rec'.noNeed
      /\ rec'.moved = (kept # cache.conds) /\ rec'.stale = cstale
      /\ rec'.inst = [cache EXCEPT !.sparams = cache.params, !.conds = kept]
      /\ UNCHANGED <<obj, cache, cstale, run, budget, pc, arg>>
      /\ pc[R] = "idle"
      /\ cache.there
      BY DEF Read, Resting, managerVars, Popped, StatusInv, WorkInv
<1>2. /\ rec'.inst.there = cache.there /\ rec'.inst.jobs = cache.jobs
      /\ rec'.inst.params = cache.params /\ rec'.inst.sparams = cache.params
      /\ rec'.inst.conds = kept
      BY <1>1 DEF Typed, CopyInv, Shapes, Absent
<1>3. kept \subseteq cache.conds /\ \A c \in kept : c.job \in cache.jobs
      BY DEF Unchanged
<1>4. kept # {} => cache.sparams = cache.params
      BY DEF GlobalChange
<1> HIDE DEF kept
<1>5. NamesInv'
      BY <1>1, <1>2, <1>3 DEF StatusInv, NamesInv, Named
<1>6. WorkInv'
      BY <1>1, <1>2 DEF WorkInv, CallPCs
<1>7. InstInv'
      BY <1>1, <1>2, <1>3, <1>4 DEF InstInv, Typed, CopyInv
<1>8. RestInv'
      BY <1>1 DEF RestInv, AtRest
<1> QED BY <1>1, <1>5, <1>6, <1>7, <1>8 DEF StatusInv

\* A job of the spec gets its condition and the worker is between calls.
LEMMA RecordStatus ==
    ASSUME Typed, StatusInv, rec.active,
           NEW j \in rec.inst.jobs, NEW id \in AllIds, NEW state,
           NEW r, r \in {rec, Taken(j)}, rec' = Recorded(r, j, id, state),
           UNCHANGED reconcileVars, pc'[R] = "idle",
           \A k : Calling(k) => k = j
    PROVE  StatusInv'
<1> DEFINE c == [job |-> j, id |-> id, state |-> state]
<1>1. /\ DOMAIN r = Fields /\ r.inst = rec.inst /\ r.kept = rec.kept
      /\ r.active = rec.active /\ r.moved = rec.moved /\ r.stale = rec.stale
      /\ rec.jobs \ {j} \subseteq r.jobs
  <2>1. Shapes
        BY DEF Typed, CopyInv
  <2>2. CASE r = rec
        BY <2>1, <2>2, RecFields
  <2>3. CASE r = Taken(j)
        BY <2>1, <2>3, TakenFields
  <2> QED BY <2>2, <2>3
<1>2. DOMAIN r.inst = DOMAIN Absent
      BY <1>1 DEF Typed, CopyInv, Shapes
<1>3. /\ rec'.active = rec.active /\ rec'.jobs = r.jobs /\ rec'.kept = rec.kept
      /\ rec'.noNeed = FALSE /\ rec'.moved = rec.moved /\ rec'.stale = rec.stale
      /\ rec'.inst.there = rec.inst.there /\ rec'.inst.jobs = rec.inst.jobs
      /\ rec'.inst.params = rec.inst.params /\ rec'.inst.sparams = rec.inst.sparams
      /\ rec'.inst.conds = {d \in rec.inst.conds : d.job.name # j.name} \cup {c}
  <2>1. PICK s : s = Recorded(r, j, id, state)
        OBVIOUS
  <2>2. /\ s.active = r.active /\ s.jobs = r.jobs /\ s.kept = r.kept
        /\ s.noNeed = FALSE /\ s.moved = r.moved /\ s.stale = r.stale
        /\ s.inst.there = r.inst.there /\ s.inst.jobs = r.inst.jobs
        /\ s.inst.params = r.inst.params /\ s.inst.sparams = r.inst.sparams
        /\ s.inst.conds = {d \in r.inst.conds : d.job.name # j.name} \cup {c}
        BY ONLY <1>1, <1>2, <2>1 DEF Recorded, Fields, Absent
  <2> QED BY ONLY <1>1, <2>1, <2>2, rec' = Recorded(r, j, id, state)
<1>4. c.job = j
      OBVIOUS
<1>5. UNCHANGED <<obj, cache, cstale, due, run, budget>>
      BY DEF reconcileVars
<1> HIDE DEF c
<1>6. NamesInv'
  <2>1. Named(rec'.inst.conds)
        BY <1>3, <1>4, ReplacedNamed DEF StatusInv, NamesInv
  <2> QED BY <1>5, <2>1 DEF StatusInv, NamesInv
<1>7. WorkInv'
  <2>1. ASSUME Distinct(rec.inst.jobs), NEW k \in rec.inst.jobs, k \notin rec'.jobs
        PROVE  \E d \in rec'.inst.conds : d.job = k
    <3>1. CASE k = j
          BY <1>3, <1>4, <3>1
    <3>2. CASE k # j
      <4>1. PICK d \in rec.inst.conds : d.job = k
            BY <1>1, <1>3, <2>1, <3>2 DEF StatusInv, WorkInv
      <4>2. k.name # j.name
            BY <2>1, <3>2 DEF Distinct
      <4> QED BY <1>3, <4>1, <4>2
    <3> QED BY <3>1, <3>2
  <2> QED BY <1>3, <2>1 DEF WorkInv, CallPCs
<1>8. InstInv'
  <2>1. \A d \in rec'.inst.conds \cup rec'.kept : d.job \in rec'.inst.jobs
        BY <1>3, <1>4 DEF StatusInv, InstInv
  <2>2. \A d \in rec'.kept : \E e \in rec'.inst.conds : e.job.name = d.job.name
        BY <1>3, <1>4 DEF StatusInv, InstInv
  <2> QED BY <1>3, <1>5, <2>1, <2>2 DEF StatusInv, InstInv
<1>9. RestInv'
      BY <1>3 DEF RestInv, AtRest
<1> QED BY <1>5, <1>6, <1>7, <1>8, <1>9 DEF StatusInv

\* The worker goes on without recording anything.
LEMMA GoOnStatus ==
    ASSUME Typed, StatusInv, rec.active, UNCHANGED reconcileVars,
           rec'.active, rec'.inst = rec.inst, rec'.kept = rec.kept, rec'.noNeed = rec.noNeed,
           rec'.moved = rec.moved, rec'.stale = rec.stale, WorkInv'
    PROVE  StatusInv'
<1>1. UNCHANGED <<obj, cache, cstale, due, run, budget>>
      BY DEF reconcileVars
<1>2. NamesInv' /\ InstInv' /\ RestInv'
      BY <1>1 DEF StatusInv, NamesInv, InstInv, RestInv, AtRest
<1> QED BY <1>1, <1>2 DEF StatusInv

LEMMA DeleteStatus ==
    ASSUME Typed, StatusInv, NEW id \in AllIds, DeleteOne(id)
    PROVE  StatusInv'
<1>1. /\ rec.active /\ pc[R] = "idle" /\ UNCHANGED reconcileVars
      /\ rec'.active = rec.active /\ rec'.inst = rec.inst /\ rec'.kept = rec.kept
      /\ rec'.jobs = rec.jobs /\ rec'.noNeed = rec.noNeed /\ rec'.moved = rec.moved
      /\ rec'.stale = rec.stale
      BY RecFields DEF DeleteOne, Typed, CopyInv, Fields
<1>2. pc'[R] \in {"idle", "d_remove"}
      BY <1>1 DEF DeleteOne, M!CallDelete, M!Goto, managerVars, Typed, M!TypeOK, M!Threads
<1>3. WorkInv'
      BY <1>1, <1>2 DEF WorkInv, StatusInv, Calling, CallPCs, KeptOf
<1> QED BY <1>1, <1>3, GoOnStatus

LEMMA JobStatus ==
    ASSUME Typed, StatusInv, NEW j \in JobSpecs, JobInvalid(j) \/ JobDone(j) \/ JobCreate(j)
    PROVE  StatusInv'
<1>1. /\ rec.active /\ pc[R] = "idle" /\ UNCHANGED reconcileVars
      /\ j \in rec.jobs /\ j \in rec.inst.jobs
      BY DEF JobInvalid, JobDone, JobCreate, HandleJob, Typed, CTypes, RecTypes
<1>2. \A k : ~Calling(k)
      BY <1>1 DEF Calling, CallPCs
<1>3. R \in M!Threads /\ pc \in [M!Threads -> M!PCs] /\ arg \in [M!Threads -> M!Jobs \cup {NoJob}]
      BY DEF Typed, M!TypeOK, M!Threads
<1>4. Shapes
      BY DEF Typed, CopyInv
\* A job with a condition left still has one.
<1>5. ASSUME KeptOf(j) # {}, Distinct(rec.inst.jobs)
      PROVE  \E c \in rec.inst.conds : c.job = j
      BY <1>1, <1>5 DEF KeptOf, StatusInv, InstInv, Distinct
<1>6. CASE JobInvalid(j)
  <2>1. rec' = Recorded(Taken(j), j, NoId, "Failed") /\ pc' = pc
        BY <1>6 DEF JobInvalid, managerVars
  <2> QED BY <1>1, <1>2, <2>1, RecordStatus DEF AllIds
<1>7. CASE JobDone(j)
  <2>1. PICK ids : rec' = [Taken(j) EXCEPT !.dels = ids]
        BY <1>7 DEF JobDone
  <2>2. KeptOf(j) # {} /\ pc' = pc /\ arg' = arg
        BY <1>7 DEF JobDone, managerVars
  <2>3. /\ rec'.active = rec.active /\ rec'.inst = rec.inst /\ rec'.kept = rec.kept
        /\ rec'.jobs = rec.jobs \ {j} /\ rec'.noNeed = rec.noNeed /\ rec'.moved = rec.moved
        /\ rec'.stale = rec.stale
        BY <1>4, <2>1, TakenFields DEF Fields
  <2>4. WorkInv'
        BY <1>1, <1>2, <1>5, <2>2, <2>3 DEF WorkInv, StatusInv, CallPCs
  <2> QED BY <1>1, <2>3, <2>4, GoOnStatus
<1>8. CASE JobCreate(j)
  <2>1. PICK id \in AllIds :
          /\ KeptOf(j) = {} => Unused(id)
          /\ M!CreateLoad([id |-> id, work |-> [job |-> j, params |-> rec.inst.params]])
        BY <1>8 DEF JobCreate
  <2>2. /\ arg'[R].work.job = j
        /\ pc'[R] = IF id \in DOMAIN queue THEN "c_again" ELSE "c_add"
        BY <1>3, <2>1 DEF M!CreateLoad, M!Goto
  <2>3. pc'[R] = "c_again" => KeptOf(j) # {}
        BY <2>1, <2>2 DEF Unused
  <2>4. /\ rec'.active = rec.active /\ rec'.inst = rec.inst /\ rec'.kept = rec.kept
        /\ rec'.jobs = rec.jobs \ {j} /\ rec'.noNeed = rec.noNeed /\ rec'.moved = rec.moved
        /\ rec'.stale = rec.stale
        BY <1>4, <1>8, TakenFields DEF JobCreate
  <2>5. pc'[R] \in {"c_add", "c_again"}
        BY <2>2
  <2>6. WorkInv'
        BY <1>1, <1>2, <2>2, <2>3, <2>4, <2>5 DEF WorkInv, StatusInv, Calling, CallPCs, KeptOf
  <2> QED BY <1>1, <2>4, <2>6, GoOnStatus
<1> QED BY <1>6, <1>7, <1>8

\* The calls of the manager.
LEMMA CallStatus ==
    ASSUME Typed, StatusInv, Submit \/ Refuse \/ Compare \/ ManagerStep
    PROVE  StatusInv'
<1> DEFINE j == arg[R].work.job
<1>1. R \in M!Threads /\ pc \in [M!Threads -> M!PCs] /\ arg \in [M!Threads -> M!Jobs \cup {NoJob}]
      BY DEF Typed, M!TypeOK, M!Threads
<1>2. UNCHANGED reconcileVars /\ rec.active
      BY DEF Submit, Refuse, Compare, ManagerStep, M!UpdateRemove, M!DeleteRemove, M!DeleteDrop,
         StatusInv, WorkInv
<1>3. ASSUME pc[R] \in CallPCs, pc'[R] = "idle",
             NEW state, rec' = Recorded(rec, j, arg[R].id, state)
      PROVE  StatusInv'
  <2>1. arg[R] \in M!Jobs
        BY <1>1, <1>3 DEF Typed, M!TypeOK, CallPCs
  <2>2. arg[R].id \in AllIds /\ j \in rec.inst.jobs /\ \A k : Calling(k) => k = j
        BY <1>3, <2>1 DEF M!Jobs, StatusInv, WorkInv, Calling
  <2> HIDE DEF j
  <2> QED BY <1>2, <1>3, <2>2, RecordStatus
\* The worker moves on to the next step of the same call.
<1>4. ASSUME pc[R] \in CallPCs, pc'[R] \in CallPCs, arg' = arg, rec' = rec,
             pc'[R] \in {"c_again", "u_remove"} => pc[R] = "c_again"
      PROVE  StatusInv'
  <2>1. WorkInv'
        BY <1>4 DEF StatusInv, WorkInv, Calling, KeptOf, CallPCs
  <2> QED BY <1>2, <1>4, <2>1, GoOnStatus
<1>5. CASE Submit
  <2>1. pc[R] \in CallPCs /\ pc'[R] = "idle" /\ rec' = Recorded(rec, j, arg[R].id, "Submitted")
        BY <1>1, <1>5 DEF Submit, M!CreateStore, M!UpdateStore, M!Return, M!Goto, Record, CallPCs
  <2> QED BY <1>3, <2>1
<1>6. CASE Refuse
  <2>1. pc[R] \in {"c_add", "u_add"} /\ arg[R].work \in Works
        BY <1>1, <1>6 DEF Refuse, Typed, M!TypeOK, M!Jobs
  <2>2. CASE j.plan \in GoodPlans
    <3>1. /\ arg' = arg /\ rec' = rec
          /\ pc'[R] \in {"c_store", "u_store"}
          BY <1>1, <1>6, <2>1, <2>2 DEF Refuse, M!CreateAdd, M!UpdateAdd, M!ContinueIf, M!Goto
    <3> QED BY <1>4, <2>1, <3>1 DEF CallPCs
  <2>3. CASE j.plan \notin GoodPlans
    <3>1. rec' = Recorded(rec, j, arg[R].id, "Failed") /\ pc'[R] = "idle"
          BY <1>1, <1>6, <2>1, <2>3 DEF Refuse, M!CreateAdd, M!UpdateAdd, M!ContinueIf, M!Return,
             M!Goto, Record
    <3> QED BY <1>3, <2>1, <3>1 DEF CallPCs
  <2> QED BY <2>2, <2>3
<1>7. CASE Compare
  <2>1. CASE arg[R].id \notin DOMAIN queue
    <3>1. rec' = Recorded(rec, j, arg[R].id, "Failed") /\ pc'[R] = "idle" /\ pc[R] \in CallPCs
          BY <1>1, <1>7, <2>1 DEF Compare, M!CreateAgain, M!ContinueIf, M!Return, M!Goto, Record,
             CallPCs
    <3> QED BY <1>3, <3>1
  <2>2. CASE arg[R].id \in DOMAIN queue /\ pc'[R] = "u_remove"
    <3>1. rec' = rec /\ arg' = arg /\ pc[R] = "c_again"
          BY <1>1, <1>7, <2>2 DEF Compare, M!CreateAgain, M!ContinueIf, M!Return, M!Goto
    <3> QED BY <1>4, <2>2, <3>1 DEF CallPCs
  <2>3. CASE arg[R].id \in DOMAIN queue /\ pc'[R] # "u_remove"
    <3>1. rec' = rec /\ pc'[R] = "idle" /\ pc[R] = "c_again"
          BY <1>1, <1>7, <2>3 DEF Compare, M!CreateAgain, M!ContinueIf, M!Return, M!Goto
    <3>2. Distinct(rec.inst.jobs) => \E c \in rec.inst.conds : c.job = j
          BY <1>2, <3>1 DEF KeptOf, StatusInv, WorkInv, InstInv, Distinct, CallPCs
    <3>3. WorkInv'
          BY <1>2, <3>1, <3>2 DEF StatusInv, WorkInv, Calling, CallPCs
    <3> QED BY <1>2, <3>1, <3>3, GoOnStatus
  <2> QED BY <2>1, <2>2, <2>3
<1>8. CASE ManagerStep
  <2>1. rec' = rec
        BY <1>8 DEF ManagerStep
  <2>2. CASE M!UpdateRemove
    <3>1. arg' = arg /\ pc[R] = "u_remove" /\ pc'[R] = "u_add"
          BY <1>1, <2>2 DEF M!UpdateRemove, M!Goto
    <3> QED BY <1>4, <2>1, <3>1 DEF CallPCs
  <2>3. CASE M!DeleteRemove(R) \/ M!DeleteDrop(R)
    <3>1. pc[R] \in {"d_remove", "d_drop"} /\ pc'[R] \in {"d_drop", "idle"}
          BY <1>1, <2>3 DEF M!DeleteRemove, M!DeleteDrop, M!Return, M!Goto
    <3>2. WorkInv'
          BY <1>2, <2>1, <3>1 DEF StatusInv, WorkInv, Calling, CallPCs
    <3> QED BY <1>2, <2>1, <3>2, GoOnStatus
  <2> QED BY <1>8, <2>2, <2>3 DEF ManagerStep
<1> QED BY <1>5, <1>6, <1>7, <1>8

\* The reconcile ends, with the object it has read and handled.
LEMMA HandledMatches ==
    ASSUME Typed, StatusInv, Handled, ~rec.stale, Unambiguous
    PROVE  /\ Matching(rec.inst) /\ Same(rec.inst, obj)
           /\ NoUpdate => Matching(obj)
<1>1. Same(rec.inst, obj) /\ rec.active
      BY DEF Typed, CopyInv, Handled
<1>2. Distinct(rec.inst.jobs)
      BY <1>1 DEF Same, Unambiguous, Distinct
<1>3. \A j \in rec.inst.jobs : \E c \in rec.inst.conds : c.job = j
      BY <1>1, <1>2 DEF Handled, StatusInv, WorkInv, Calling, CallPCs
<1>4. \A c \in rec.inst.conds : c.job \in rec.inst.jobs
      BY <1>1 DEF StatusInv, InstInv
<1>5. {c.job : c \in rec.inst.conds} = rec.inst.jobs
      BY <1>3, <1>4
<1>6. Matching(rec.inst)
      BY <1>1, <1>5 DEF Matching, StatusInv, InstInv, NamesInv
<1>7. ASSUME NoUpdate PROVE Matching(obj)
  <2>1. rec.inst.conds = rec.kept /\ rec.kept = obj.conds
        BY <1>1, <1>7 DEF NoUpdate, StatusInv, InstInv
  <2>2. obj.jobs # {} => obj.sparams = obj.params
        BY <1>1, <1>3, <2>1 DEF Same, StatusInv, InstInv
  <2> QED BY <1>1, <1>5, <2>1, <2>2 DEF Matching, Same, StatusInv, NamesInv
<1> QED BY <1>1, <1>6, <1>7

LEMMA EndStatus ==
    Typed /\ StatusInv /\ (Skip \/ Update \/ Conflict \/ UpdateFails) => StatusInv'
<1> SUFFICES ASSUME Typed, StatusInv, Skip \/ Update \/ Conflict \/ UpdateFails
             PROVE  StatusInv'
    OBVIOUS
<1>1. /\ Handled /\ rec' = Resting /\ UNCHANGED <<cache, due, run, pc, arg>>
      /\ pc[R] = "idle" /\ rec.active
      BY DEF Skip, Update, Conflict, UpdateFails, reconcileVars, managerVars, Handled
<1>2. NamesInv'
      BY <1>1, RestingNames DEF Skip, Update, Conflict, UpdateFails, reconcileVars, StatusInv, NamesInv, Named
<1>3. WorkInv' /\ InstInv'
      BY <1>1, RestingNames DEF WorkInv, InstInv, CallPCs
<1>4. RestInv'
  <2>1. CASE Update
    <3>1. obj' = rec.inst /\ ~rec.stale
          BY <2>1 DEF Update
    <3>2. Unambiguous' => Unambiguous
      <4>1. rec.inst.jobs = obj.jobs
            BY <1>1, <3>1 DEF Typed, CopyInv, Same
      <4> QED BY <3>1, <4>1 DEF Unambiguous
    <3> QED BY <1>1, <3>1, <3>2, HandledMatches DEF RestInv, Matching, Named
  <2>2. CASE Skip \/ Conflict
    <3>1. UNCHANGED <<obj, cstale, due>>
          BY <2>2 DEF Skip, Conflict, reconcileVars
    <3>2. CASE rec.stale
          BY <1>1, <3>1, <3>2 DEF StatusInv, InstInv, RestInv, AtRest
    <3>3. CASE ~rec.stale
          BY <1>1, <2>2, <3>1, <3>3, HandledMatches DEF Skip, Conflict, RestInv, Unambiguous,
             Matching, Named, Typed, CopyInv
    <3> QED BY <3>2, <3>3
  <2>3. CASE UpdateFails
    <3>1. budget["errors"] > 0 /\ Spent
          BY <2>3 DEF UpdateFails, Typed
    <3>2. Budget["errors"] # 0
          BY <3>1, HPAAssumption DEF Spent
    <3> QED BY <3>2 DEF RestInv
  <2> QED BY <2>1, <2>2, <2>3
<1> QED BY <1>1, <1>2, <1>3, <1>4 DEF StatusInv

LEMMA CrashStatus == Typed /\ StatusInv /\ Crash => StatusInv'
<1> SUFFICES ASSUME Typed, StatusInv, Crash PROVE StatusInv'
    OBVIOUS
<1>1. /\ cache' = obj /\ obj' = obj /\ cstale' = FALSE /\ due' = obj.there /\ rec' = Resting
      /\ run' = [i \in AllIds |-> NoRun] /\ pc'[R] = "idle"
      BY DEF Crash, M!Restart, M!Threads
<1>2. NamesInv'
      BY <1>1, RestingNames DEF StatusInv, NamesInv, Named
<1>3. WorkInv' /\ InstInv' /\ RestInv'
      BY <1>1, RestingNames DEF WorkInv, InstInv, RestInv, AtRest, CallPCs
<1> QED BY <1>1, <1>2, <1>3 DEF StatusInv

LEMMA StatusInit == Init => StatusInv
<1> SUFFICES ASSUME Init PROVE StatusInv
    OBVIOUS
<1>1. /\ obj.conds = {} /\ cache = obj /\ rec = Resting /\ due = TRUE /\ budget = Budget
      /\ run = [i \in AllIds |-> NoRun]
      BY DEF Init, Created, Absent
<1>2. pc[R] = "idle"
      BY DEF Init, M!Init, M!Threads
<1>3. NamesInv
      BY <1>1, RestingNames DEF NamesInv, Named
<1>4. WorkInv /\ InstInv /\ RestInv
      BY <1>1, <1>2, RestingNames DEF WorkInv, InstInv, RestInv, AtRest, CallPCs
<1> QED BY <1>3, <1>4 DEF StatusInv

LEMMA StatusStep == Typed /\ StatusInv /\ [Next]_vars => StatusInv'
<1> SUFFICES ASSUME Typed, StatusInv, [Next]_vars PROVE StatusInv'
    OBVIOUS
<1>1. CASE Reconcile
      BY <1>1, ReadStatus, ReadGoneStatus, DeleteStatus, JobStatus, CallStatus, EndStatus
      DEF Reconcile
<1> QED BY <1>1, UserStatus, ResultStatus, OutsideStatus, EndStatus, CrashStatus DEF Next

LEMMA AlwaysStatus == Spec => [](Typed /\ StatusInv)
<1>1. Init => Spent
      BY DEF Init, Spent
<1>2. Spec => []Spent
      BY <1>1, SpentStep, PTL DEF Spec
<1>3. Spec => []Typed
      BY <1>2, AllTyped, PTL DEF Typed
<1> QED BY <1>3, StatusInit, StatusStep, PTL DEF Spec

\* While no write of the API server fails for another reason than a conflict: once
\* the controller has caught up the status has one condition for every job of the
\* spec and no other (controller.go:91-205).
THEOREM StatusDescribes ==
    ASSUME Budget["errors"] = 0
    PROVE  Spec => []StatusMatchesSpec
<1>1. StatusInv => StatusMatchesSpec
      BY DEF StatusInv, RestInv, AtRest, Settled, StatusMatchesSpec, Matching, Named
<1> QED BY <1>1, AlwaysStatus, PTL
===============================================================================
