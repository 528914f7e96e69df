--------------------------- MODULE CronManagerProofs ---------------------------
(***************************************************************************)
(* Theorems about CronManager, for any identifiers, CronHPAs, plans and    *)
(* number of concurrent collection passes.                                 *)
(*                                                                         *)
(* TrackedIsScheduled is not inductive: a pass could be about to remove a  *)
(* job, or the worker to track one the engine has lost.  IInv adds that a  *)
(* pass on its way to a removal works on a job whose CronHPA is gone for   *)
(* good (Doomed) and that a job about to be stored is scheduled (Stored).  *)
(***************************************************************************)
EXTENDS CronManager, TLAPS

Removing == {"g_remove", "d_load", "d_remove", "d_drop"}
Storing  == {"c_store", "u_store"}

Existing == present \cap Lasting

Doomed == \A p \in Passes : pc[p] \in Removing => Owner[arg[p].id] \notin Existing

Stored == pc[R] \in Storing /\ Owner[arg[R].id] \in Existing => arg[R].id \in DOMAIN engine

IInv == TypeOK /\ Doomed /\ Stored /\ TrackedIsScheduled

-------------------------------------------------------------------------------
\* The table operations.

WellKeyed(m) == JobMap(m) /\ \A i \in DOMAIN m : m[i].id = i

LEMMA ScheduledTable ==
    ASSUME NEW m, WellKeyed(m), NEW j \in Jobs
    PROVE  /\ WellKeyed(Table!Scheduled(m, j))
           /\ DOMAIN Table!Scheduled(m, j) = DOMAIN m \cup {j.id}
BY DEF WellKeyed, JobMap, Table!Scheduled, Jobs

LEMMA UnscheduledTable ==
    ASSUME NEW m, WellKeyed(m), NEW id
    PROVE  /\ WellKeyed(Table!Unscheduled(m, id))
           /\ DOMAIN Table!Unscheduled(m, id) = DOMAIN m \ {id}
BY DEF WellKeyed, JobMap, Table!Unscheduled

LEMMA Addition ==
    ASSUME WellKeyed(engine), failed \subseteq Ids, NEW j \in Jobs, AddJob(j)
    PROVE  /\ WellKeyed(engine') /\ failed' \subseteq Ids
           /\ DOMAIN engine \subseteq DOMAIN engine'
           /\ j.work \in Parses => j.id \in DOMAIN engine'
           /\ \A i \in failed : i \in failed' \/ i \in DOMAIN engine'
BY ScheduledTable DEF AddJob, Jobs

LEMMA Removal ==
    ASSUME WellKeyed(engine), NEW id, RemoveJob(id)
    PROVE  /\ WellKeyed(engine') /\ failed' = failed
           /\ DOMAIN engine' = DOMAIN engine \ {id}
BY UnscheduledTable DEF RemoveJob

LEMMA Types ==
    ASSUME TypeOK
    PROVE  /\ WellKeyed(queue) /\ WellKeyed(engine) /\ failed \subseteq Ids
           /\ \A t \in Threads : \/ pc[t] \in {"idle", "g_range"}
                                 \/ (arg[t] \in Jobs /\ arg[t].id \in Ids)
           /\ R \in Threads /\ Passes \subseteq Threads /\ R \notin Passes
BY ManagerAssumption DEF TypeOK, WellKeyed, Jobs, Threads

-------------------------------------------------------------------------------
\* Type correctness.

LEMMA TypeStep == TypeOK /\ [Next]_vars => TypeOK'
<1> SUFFICES ASSUME TypeOK, [Next]_vars PROVE TypeOK'
    OBVIOUS
<1> USE Types
<1>1. ASSUME NEW j \in Jobs, CreateLoad(j)
      PROVE  TypeOK'
      BY <1>1 DEF CreateLoad, TypeOK, Goto, PCs, JobMap
<1>2. ASSUME NEW id \in Ids, CallDelete(id)
      PROVE  TypeOK'
      BY <1>2 DEF CallDelete, TypeOK, Goto, PCs, JobMap
<1>3. CASE CreateAdd \/ UpdateAdd
  <2>1. arg[R] \in Jobs
        BY <1>3 DEF CreateAdd, UpdateAdd
  <2>2. WellKeyed(engine') /\ failed' \subseteq Ids
        BY <1>3, <2>1, Addition DEF CreateAdd, UpdateAdd
  <2> QED BY <1>3, <2>2 DEF CreateAdd, UpdateAdd, ContinueIf, Return, TypeOK, Goto, PCs,
        WellKeyed, JobMap
<1>4. CASE CreateStore \/ UpdateStore
  <2>1. arg[R] \in Jobs
        BY <1>4 DEF CreateStore, UpdateStore
  <2>2. WellKeyed(queue')
        BY <1>4, <2>1, ScheduledTable DEF CreateStore, UpdateStore, Store
  <2> QED BY <1>4, <2>2 DEF CreateStore, UpdateStore, Return, TypeOK, Goto, PCs, WellKeyed,
        JobMap
<1>5. CASE CreateAgain
      BY <1>5 DEF CreateAgain, ContinueIf, Return, TypeOK, Goto, PCs, JobMap
<1>6. CASE UpdateRemove
  <2>1. WellKeyed(engine') /\ failed' = failed
        BY <1>6, Removal DEF UpdateRemove
  <2> QED BY <1>6, <2>1 DEF UpdateRemove, TypeOK, Goto, PCs, WellKeyed, JobMap
<1>7. ASSUME NEW t \in Threads, DeleteRemove(t) \/ GCRemove(t)
      PROVE  TypeOK'
  <2>1. WellKeyed(engine') /\ failed' = failed
        BY <1>7, Removal DEF DeleteRemove, GCRemove
  <2> QED BY <1>7, <2>1 DEF DeleteRemove, GCRemove, TypeOK, Goto, PCs, WellKeyed, JobMap
<1>8. ASSUME NEW t \in Threads, DeleteDrop(t)
      PROVE  TypeOK'
  <2>1. WellKeyed(queue')
        BY <1>8, UnscheduledTable DEF DeleteDrop
  <2> QED BY <1>8, <2>1 DEF DeleteDrop, Return, TypeOK, Goto, PCs, WellKeyed, JobMap
<1>9. ASSUME NEW p \in Passes, GCStart(p) \/ GCEnd(p) \/ GCFind(p)
      PROVE  TypeOK'
      BY <1>9 DEF GCStart, GCEnd, GCFind, TypeOK, Goto, PCs, JobMap
<1>10. ASSUME NEW p \in Passes, NEW id \in Ids, GCVisit(p, id)
       PROVE  TypeOK'
       BY <1>10 DEF GCVisit, TypeOK, Goto, PCs, JobMap
<1>11. ASSUME NEW p \in Passes,
              GCGetNotFound(p) \/ GCGetExists(p) \/ GCGetError(p) \/ DeleteLoad(p)
       PROVE  TypeOK'
       BY <1>11 DEF GCGetNotFound, GCGetExists, GCGetError, DeleteLoad, ContinueIf, Return,
          TypeOK, Goto, PCs, JobMap
<1>12. ASSUME NEW p \in Passes, GCAdd(p)
       PROVE  TypeOK'
  <2>1. arg[p] \in Jobs
        BY <1>12 DEF GCAdd
  <2>2. WellKeyed(engine') /\ failed' \subseteq Ids
        BY <1>12, <2>1, Addition DEF GCAdd
  <2> QED BY <1>12, <2>2 DEF GCAdd, Return, TypeOK, Goto, PCs, WellKeyed, JobMap
<1>13. ASSUME NEW h \in Hpas, Vanish(h) \/ Reappear(h)
       PROVE  TypeOK'
       BY <1>13 DEF Vanish, Reappear, TypeOK, JobMap
<1>14. CASE Restart
  <2>1. JobMap(queue') /\ DOMAIN queue' = {} /\ JobMap(engine') /\ DOMAIN engine' = {}
        BY <1>14 DEF Restart, JobMap
  <2>2. present' \subseteq Hpas
        BY <1>14, ManagerAssumption DEF Restart, TypeOK
  <2> QED BY <1>14, <2>1, <2>2 DEF Restart, TypeOK, PCs
<1>15. CASE UNCHANGED vars
       BY <1>15 DEF vars, TypeOK, JobMap
<1> QED BY <1>1, <1>2, <1>3, <1>4, <1>5, <1>6, <1>7, <1>8, <1>9, <1>10, <1>11, <1>12, <1>13,
        <1>14, <1>15 DEF Next, Create, Delete, Collect

LEMMA TypeInit == Init => TypeOK
<1> SUFFICES ASSUME Init PROVE TypeOK
    OBVIOUS
<1>1. JobMap(queue) /\ DOMAIN queue = {} /\ JobMap(engine) /\ DOMAIN engine = {}
      BY DEF Init, JobMap
<1> QED BY <1>1 DEF Init, TypeOK, PCs

\* The queue, the engine's table and the threads keep their types.
THEOREM TypeCorrect == Spec => []TypeOK
BY TypeInit, TypeStep, PTL DEF Spec

-------------------------------------------------------------------------------
\* The inductive invariant.

LEMMA InitIInv == Init => IInv
<1> SUFFICES ASSUME Init PROVE IInv
    OBVIOUS
<1>1. TypeOK
  <2>1. JobMap(queue) /\ DOMAIN queue = {} /\ JobMap(engine) /\ DOMAIN engine = {}
        BY DEF Init, JobMap
  <2> QED BY <2>1 DEF Init, TypeOK, PCs
<1>2. DOMAIN queue = {}
      BY DEF Init
<1>3. Doomed /\ Stored
      BY ManagerAssumption DEF Init, Doomed, Stored, Removing, Storing, Threads
<1> QED BY <1>1, <1>2, <1>3 DEF IInv, TrackedIsScheduled

\* The worker's steps.  None disturbs Doomed: passes keep where they are and
\* what they work on.
LEMMA WorkerStep ==
    ASSUME IInv,
           \/ \E j \in Jobs : CreateLoad(j)
           \/ \E id \in Ids : CallDelete(id)
           \/ Create
           \/ Delete(R)
    PROVE  Doomed' /\ Stored' /\ TrackedIsScheduled'
<1> USE Types DEF IInv
<1>1. \A p \in Passes : pc'[p] = pc[p] /\ arg'[p] = arg[p]
  <2>1. \A p \in Passes : p # R
        BY ManagerAssumption
  <2> QED BY <2>1 DEF CreateLoad, CallDelete, Create, CreateAdd, CreateStore,
        CreateAgain, UpdateRemove, UpdateAdd, UpdateStore, Delete, DeleteRemove,
        DeleteDrop, ContinueIf, Return, Goto, TypeOK
<1>2. present' = present
      BY DEF CreateLoad, CallDelete, Create, CreateAdd, CreateStore, CreateAgain,
         UpdateRemove, UpdateAdd, UpdateStore, Delete, DeleteRemove, DeleteDrop
<1>3. Doomed'
      BY <1>1, <1>2 DEF Doomed, Existing
<1> SUFFICES Stored' /\ TrackedIsScheduled'
    BY <1>3
<1> USE <1>2 DEF Existing
<1>4. ASSUME \/ \E j \in Jobs : CreateLoad(j)
             \/ \E id \in Ids : CallDelete(id)
      PROVE  Stored' /\ TrackedIsScheduled'
      BY <1>4 DEF CreateLoad, CallDelete, ContinueIf, Return, Goto, TypeOK, Stored, Storing,
         TrackedIsScheduled, InTransit
<1>5. CASE CreateAdd
  <2>1. /\ DOMAIN engine \subseteq DOMAIN engine'
        /\ arg[R].work \in Parses => arg[R].id \in DOMAIN engine'
        /\ \A i \in failed : i \in failed' \/ i \in DOMAIN engine'
        BY <1>5, Addition DEF CreateAdd
  <2> QED BY <1>5, <2>1 DEF CreateAdd, ContinueIf, Return, Goto, TypeOK, Stored, Storing, TrackedIsScheduled,
        InTransit
<1>6. CASE CreateStore \/ UpdateStore
  <2>1. DOMAIN queue' = DOMAIN queue \cup {arg[R].id}
        BY <1>6, ScheduledTable DEF CreateStore, UpdateStore, Store
  <2>2. Owner[arg[R].id] \in Existing => arg[R].id \in DOMAIN engine
        BY <1>6 DEF CreateStore, UpdateStore, Stored, Storing
  <2>3. ~InTransit(arg[R].id) /\ \A i \in Ids : ~InTransit(i)
        BY <1>6 DEF CreateStore, UpdateStore, InTransit
  <2>4. /\ engine' = engine /\ failed' = failed /\ present' = present
        /\ pc'[R] = "idle"
        BY <1>6 DEF CreateStore, UpdateStore, Return, Goto, TypeOK
  <2>5. \A i \in DOMAIN queue : i \in Ids
        BY DEF WellKeyed, JobMap
  <2>6. TrackedIsScheduled'
        BY <2>1, <2>2, <2>3, <2>4, <2>5 DEF TrackedIsScheduled, Existing
  <2>7. Stored'
        BY <2>4 DEF Stored, Storing
  <2> QED BY <2>6, <2>7
<1>7. CASE CreateAgain
      BY <1>7 DEF CreateAgain, ContinueIf, Return, Goto, TypeOK, Stored, Storing, TrackedIsScheduled, InTransit
<1>8. CASE UpdateRemove
  <2>1. DOMAIN engine' = DOMAIN engine \ {arg[R].id} /\ failed' = failed
        BY <1>8, Removal DEF UpdateRemove
  <2> QED BY <1>8, <2>1 DEF UpdateRemove, ContinueIf, Return, Goto, TypeOK, Stored, Storing,
        TrackedIsScheduled, InTransit
<1>9. CASE UpdateAdd
  <2>1. CASE arg[R].work \in Parses
    <3>1. /\ DOMAIN engine \subseteq DOMAIN engine'
          /\ arg[R].id \in DOMAIN engine'
          /\ \A i \in failed : i \in failed' \/ i \in DOMAIN engine'
          BY <1>9, <2>1, Addition DEF UpdateAdd
    <3> QED BY <1>9, <2>1, <3>1 DEF UpdateAdd, ContinueIf, Return, Goto, TypeOK, Stored, Storing,
          TrackedIsScheduled, InTransit
  <2>2. CASE arg[R].work \notin Parses
        BY <1>9, <2>2 DEF UpdateAdd, ContinueIf, Return, Goto, TypeOK, Stored, Storing, TrackedIsScheduled,
           InTransit
  <2> QED BY <2>1, <2>2
<1>10. CASE DeleteRemove(R)
  <2>1. DOMAIN engine' = DOMAIN engine \ {arg[R].id} /\ failed' = failed
        BY <1>10, Removal DEF DeleteRemove
  <2> QED BY <1>10, <2>1 DEF DeleteRemove, ContinueIf, Return, Goto, TypeOK, Stored, Storing,
        TrackedIsScheduled, InTransit
<1>11. CASE DeleteDrop(R)
  <2>1. DOMAIN queue' = DOMAIN queue \ {arg[R].id}
        BY <1>11, UnscheduledTable DEF DeleteDrop
  <2> QED BY <1>11, <2>1 DEF DeleteDrop, Return, Goto, TypeOK, Stored, Storing,
        TrackedIsScheduled, InTransit
<1> QED BY <1>4, <1>5, <1>6, <1>7, <1>8, <1>9, <1>10, <1>11 DEF Create, Delete

\* A pass's steps keep the worker where it is; a pass takes a job out of the
\* engine or the queue only when Doomed says its CronHPA is gone.
LEMMA PassStep ==
    ASSUME IInv, NEW p \in Passes,
           GCStart(p) \/ Collect(p) \/ GCGetError(p) \/ Delete(p)
    PROVE  Doomed' /\ Stored' /\ TrackedIsScheduled'
<1> USE Types DEF IInv
<1> p # R
    BY ManagerAssumption
<1>1. /\ present' = present
      /\ pc'[R] = pc[R] /\ arg'[R] = arg[R]
      /\ \A q \in Passes \ {p} : pc'[q] = pc[q] /\ arg'[q] = arg[q]
      BY DEF GCStart, Collect, GCGetError, Delete, GCVisit, GCEnd, GCFind, GCGetNotFound,
         GCGetExists, GCRemove, GCAdd, DeleteLoad, DeleteRemove, DeleteDrop, ContinueIf,
         Return, Goto, TypeOK
<1>2. Doomed'
  <2>1. SUFFICES pc'[p] \in Removing => Owner[arg'[p].id] \notin Existing
        BY <1>1 DEF Doomed, Existing
  <2>2. CASE GCGetNotFound(p)
        BY <2>2 DEF GCGetNotFound, Existing, Goto, TypeOK
  <2>3. ASSUME NEW id \in Ids, GCVisit(p, id)
        PROVE  pc'[p] \notin Removing
        BY <2>3 DEF GCVisit, Goto, TypeOK, Removing
  <2>4. CASE GCStart(p) \/ GCEnd(p) \/ GCFind(p) \/ GCGetExists(p) \/ GCGetError(p) \/ GCAdd(p)
        BY <2>4 DEF GCStart, GCEnd, GCFind, GCGetExists, GCGetError, GCAdd, ContinueIf,
           Return, Goto, TypeOK, Removing
  <2>5. CASE GCRemove(p) \/ DeleteLoad(p) \/ DeleteRemove(p) \/ DeleteDrop(p)
    <3>1. pc[p] \in Removing /\ (arg' = arg \/ pc'[p] \notin Removing)
          BY <2>5 DEF GCRemove, DeleteLoad, DeleteRemove, DeleteDrop, ContinueIf, Return, Goto,
             TypeOK, Removing
    <3> QED BY <3>1 DEF Doomed
  <2> QED BY <2>2, <2>3, <2>4, <2>5 DEF Collect, Delete
<1>3. CASE GCRemove(p) \/ DeleteRemove(p)
  <2>1. Owner[arg[p].id] \notin Existing
        BY <1>3 DEF GCRemove, DeleteRemove, Doomed, Removing
  <2>2. DOMAIN engine' = DOMAIN engine \ {arg[p].id} /\ failed' = failed /\ queue' = queue
        BY <1>3, Removal DEF GCRemove, DeleteRemove
  <2>3. Stored'
        BY <1>1, <2>1, <2>2 DEF Stored, Existing
  <2>4. TrackedIsScheduled'
        BY <1>1, <2>1, <2>2 DEF TrackedIsScheduled, InTransit, Existing
  <2> QED BY <1>2, <2>3, <2>4
<1>4. CASE DeleteDrop(p)
  <2>1. DOMAIN queue' = DOMAIN queue \ {arg[p].id} /\ engine' = engine /\ failed' = failed
        BY <1>4, UnscheduledTable DEF DeleteDrop
  <2> QED BY <1>1, <1>2, <2>1 DEF Stored, Existing, TrackedIsScheduled, InTransit
<1>5. CASE GCAdd(p)
  <2>1. /\ DOMAIN engine \subseteq DOMAIN engine'
        /\ \A i \in failed : i \in failed' \/ i \in DOMAIN engine'
        /\ queue' = queue
        BY <1>5, Addition DEF GCAdd
  <2> QED BY <1>1, <1>2, <2>1 DEF Stored, Existing, TrackedIsScheduled, InTransit
<1>6. ASSUME UNCHANGED <<queue, engine, failed>>
      PROVE  Stored' /\ TrackedIsScheduled'
      BY <1>1, <1>6 DEF Stored, Existing, TrackedIsScheduled, InTransit
<1>7. \/ GCRemove(p) \/ DeleteRemove(p) \/ DeleteDrop(p) \/ GCAdd(p)
      \/ UNCHANGED <<queue, engine, failed>>
      BY DEF GCStart, Collect, GCGetError, Delete, GCVisit, GCEnd, GCFind, GCGetNotFound,
         GCGetExists, DeleteLoad
<1> QED BY <1>2, <1>3, <1>4, <1>5, <1>6, <1>7

\* A CronHPA that vanishes leaves fewer jobs to speak of; one that returns is
\* not among the lasting ones.
LEMMA CacheStep ==
    ASSUME IInv, NEW h \in Hpas, Vanish(h) \/ Reappear(h)
    PROVE  Doomed' /\ Stored' /\ TrackedIsScheduled'
<1>1. Existing' \subseteq Existing
      BY DEF Vanish, Reappear, Existing, Lasting
<1>2. UNCHANGED <<queue, engine, pc, arg, failed>>
      BY DEF Vanish, Reappear
<1> QED BY <1>1, <1>2 DEF IInv, Doomed, Stored, TrackedIsScheduled, InTransit, Existing

\* A restart leaves nothing tracked and no thread at work.
LEMMA RestartStep ==
    ASSUME IInv, Restart
    PROVE  Doomed' /\ Stored' /\ TrackedIsScheduled'
<1>1. DOMAIN queue' = {} /\ \A t \in Threads : pc'[t] = "idle"
      BY DEF Restart
<1>2. R \in Threads /\ Passes \subseteq Threads
      BY DEF Threads
<1> QED BY <1>1, <1>2 DEF Doomed, Stored, TrackedIsScheduled, Removing, Storing

THEOREM Inductive == Spec => []IInv
<1>1. IInv /\ [Next]_vars => IInv'
  <2> SUFFICES ASSUME IInv, [Next]_vars PROVE IInv'
      OBVIOUS
  <2>1. TypeOK'
        BY TypeStep DEF IInv
  <2>2. CASE UNCHANGED vars
        BY <2>1, <2>2 DEF vars, IInv, Doomed, Stored, TrackedIsScheduled, InTransit, Existing
  <2>3. ASSUME NEW t \in Threads, Delete(t)
        PROVE  Doomed' /\ Stored' /\ TrackedIsScheduled'
        BY <2>3, WorkerStep, PassStep DEF Threads
  <2> QED BY <2>1, <2>2, <2>3, WorkerStep, PassStep, CacheStep, RestartStep DEF Next, IInv
<1> QED BY InitIInv, <1>1, PTL DEF Spec

\* A tracked job of an existing CronHPA is scheduled, however many collection
\* passes run beside the reconcile worker and wherever they are.
THEOREM Tracked == Spec => []TrackedIsScheduled
BY Inductive, PTL DEF IInv

\* Only the worker's own delete or update takes a job of an existing CronHPA
\* out of the queue or the engine: collection takes only what is abandoned.
THEOREM CollectsOnly == Spec => CollectsOnlyAbandoned
<1> DEFINE Only ==
      \A i \in Ids : Owner[i] \in present \cap Lasting /\ ~Restart =>
          /\ i \in DOMAIN queue \ DOMAIN queue' => pc[R] = "d_drop" /\ arg[R].id = i
          /\ i \in DOMAIN engine \ DOMAIN engine' =>
                pc[R] \in {"d_remove", "u_remove"} /\ arg[R].id = i
<1>1. IInv /\ [Next]_vars => Only
  <2> SUFFICES ASSUME IInv, [Next]_vars PROVE Only
      OBVIOUS
  <2> USE Types DEF IInv
  <2>1. CASE UNCHANGED <<queue, engine>>
        BY <2>1
  <2>2. CASE CreateAdd \/ UpdateAdd
    <3>1. DOMAIN engine \subseteq DOMAIN engine' /\ queue' = queue
          BY <2>2, Addition DEF CreateAdd, UpdateAdd
    <3> QED BY <3>1
  <2>3. CASE CreateStore \/ UpdateStore
    <3>1. DOMAIN queue' = DOMAIN queue \cup {arg[R].id} /\ engine' = engine
          BY <2>3, ScheduledTable DEF CreateStore, UpdateStore, Store
    <3> QED BY <3>1
  <2>4. CASE UpdateRemove
    <3>1. DOMAIN engine' = DOMAIN engine \ {arg[R].id} /\ queue' = queue
          BY <2>4, Removal DEF UpdateRemove
    <3> QED BY <2>4, <3>1 DEF UpdateRemove
  <2>5. ASSUME NEW t \in Threads, DeleteRemove(t)
        PROVE  Only
    <3>1. DOMAIN engine' = DOMAIN engine \ {arg[t].id} /\ queue' = queue
          BY <2>5, Removal DEF DeleteRemove
    <3>2. t # R => Owner[arg[t].id] \notin present \cap Lasting
          BY <2>5 DEF DeleteRemove, Doomed, Removing, Threads, Existing
    <3> QED BY <2>5, <3>1, <3>2 DEF DeleteRemove
  <2>6. ASSUME NEW t \in Threads, DeleteDrop(t)
        PROVE  Only
    <3>1. DOMAIN queue' = DOMAIN queue \ {arg[t].id} /\ engine' = engine
          BY <2>6, UnscheduledTable DEF DeleteDrop
    <3>2. t # R => Owner[arg[t].id] \notin present \cap Lasting
          BY <2>6 DEF DeleteDrop, Doomed, Removing, Threads, Existing
    <3> QED BY <2>6, <3>1, <3>2 DEF DeleteDrop
  <2>7. ASSUME NEW p \in Passes, GCRemove(p)
        PROVE  Only
    <3>1. DOMAIN engine' = DOMAIN engine \ {arg[p].id} /\ queue' = queue
          BY <2>7, Removal DEF GCRemove
    <3>2. Owner[arg[p].id] \notin present \cap Lasting
          BY <2>7 DEF GCRemove, Doomed, Removing, Existing
    <3> QED BY <3>1, <3>2
  <2>8. ASSUME NEW p \in Passes, GCAdd(p)
        PROVE  Only
    <3>1. DOMAIN engine \subseteq DOMAIN engine' /\ queue' = queue
          BY <2>8, Addition DEF GCAdd
    <3> QED BY <3>1
  <2>9. \/ UNCHANGED <<queue, engine>>
        \/ CreateAdd \/ UpdateAdd \/ CreateStore \/ UpdateStore \/ UpdateRemove
        \/ \E t \in Threads : DeleteRemove(t) \/ DeleteDrop(t)
        \/ \E p \in Passes : GCRemove(p) \/ GCAdd(p)
        \/ Restart
        BY DEF vars, Next, Create, Delete, Collect, CreateLoad, CallDelete, CreateAgain,
           DeleteLoad, GCStart, GCVisit, GCEnd, GCFind, GCGetNotFound, GCGetExists,
           GCGetError, Vanish, Reappear
  <2> QED BY <2>1, <2>2, <2>3, <2>4, <2>5, <2>6, <2>7, <2>8, <2>9
<1>2. [][Next]_vars /\ []IInv => [][Only]_vars
      BY <1>1, PTL
<1> QED BY <1>2, Inductive, PTL DEF Spec, CollectsOnlyAbandoned
===============================================================================
