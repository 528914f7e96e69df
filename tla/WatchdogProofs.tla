---------------------------- MODULE WatchdogProofs ----------------------------
(***************************************************************************)
(* Theorems about Watchdog, for any jobs, schedules, passes and timeout.   *)
(*                                                                         *)
(* ScheduledIsAhead is not inductive: it says nothing of a pass that has   *)
(* found a job late and not yet run it, nor of one that has run a job and  *)
(* is about to enter it.  IInvW adds that what anyone has run or found     *)
(* late lies in the past (Past) and that only a pass waiting for its read  *)
(* of the CronHPA owes a run (SeenLate).  A time computed now is then      *)
(* ahead of all of them.  TotalAddsUp rests on Tally: what the gauges have *)
(* counted in the middle of an undisturbed pass.                           *)
(***************************************************************************)
EXTENDS Watchdog, CronManagerProofs, FiniteSetTheorems

Past ==
    /\ \A r \in Runners, i \in Ids : ran[r][i] <= clock
    /\ \A p \in Passes : seen[p] <= clock

SeenLate == \A p \in Passes : seen[p] # Zero => pc[p] = "g_get" /\ found[p] = "late"

\* The part of the state that is not CronManager's.
Timed ==
    /\ clock \in Clock
    /\ next \in [DOMAIN engine -> Nat]
    /\ seen \in [Passes -> Nat]
    /\ ran \in [Runners -> [Ids -> Nat]]

Counted ==
    /\ cond \in [Ids -> {"none", "Submitted", "Succeed", "Failed"}]
    /\ known \subseteq Ids
    /\ gauge \in [Gauges -> Nat]
    /\ steady \subseteq Passes
    /\ IsFiniteSet(DOMAIN queue)

IInvW == TypeOK /\ Timed /\ Past /\ SeenLate /\ ScheduledIsAhead

-------------------------------------------------------------------------------
\* Every step of the watchdog is one of CronManager, or leaves it alone.

LEMMA ManagersStep == [WNext]_allVars => [Next]_vars
<1> SUFFICES ASSUME [WNext]_allVars PROVE [Next]_vars
    OBVIOUS
<1>1. ASSUME NEW i \in Ids, Launch(i) \/ Report(i)
      PROVE  UNCHANGED vars
      BY <1>1 DEF Launch, Report
<1>2. ASSUME NEW p \in Passes, Start(p) \/ Pass(p) \/ GetError(p)
      PROVE  Next
  <2>1. p \in Threads
        BY DEF Threads
  <2> QED BY <1>2, <2>1 DEF Start, Pass, GetError, Visit, Find, GetExists, GetNotFound,
        Resubmit, Remove, Collected, End, Next, Collect, Delete
<1>3. CASE Worker
  <2>1. R \in Threads
        BY DEF Threads
  <2> QED BY <1>3, <2>1 DEF Worker, Next, Create, Delete
<1>4. ASSUME NEW h \in Hpas, Gone(h)
      PROVE  Next
      BY <1>4 DEF Gone, Next
<1>5. CASE Tick \/ UNCHANGED allVars
      BY <1>5 DEF Tick, allVars
<1> QED BY <1>1, <1>2, <1>3, <1>4, <1>5 DEF WNext

\* So what CronManager keeps, the watchdog keeps: in particular a tracked job is
\* scheduled, whatever time does.
THEOREM StillTracked == WSpec => []TrackedIsScheduled
<1>1. WInit => Init
      BY DEF WInit
<1> QED BY <1>1, ManagersStep, Tracked, PTL DEF WSpec, Spec

-------------------------------------------------------------------------------
\* The engine's entries and their times.

\* What a time is that the engine computes now.
LEMMA NextIsAhead ==
    ASSUME NEW w \in Works, clock \in Clock
    PROVE  /\ NextTime[w][clock] \in Nat
           /\ NextTime[w][clock] = Zero \/ NextTime[w][clock] > clock
BY WatchdogAssumption

\* AddJob: the entry of its job has a time ahead, the others keep theirs.
LEMMA EnteredTimes ==
    ASSUME TypeOK, Timed, NEW j \in Jobs, AddJob(j), Entered(j.id)
    PROVE  /\ next' \in [DOMAIN engine' -> Nat]
           /\ \A i \in DOMAIN next' :
                 /\ i = j.id => next'[i] = Zero \/ next'[i] > clock
                 /\ i # j.id => i \in DOMAIN next /\ next'[i] = next[i]
<1>1. WellKeyed(engine) /\ failed \subseteq Ids
      BY Types
<1>2. WellKeyed(engine')
      BY <1>1, Addition
<1>3. DOMAIN engine' \subseteq DOMAIN engine \cup {j.id}
      BY <1>1, ScheduledTable DEF AddJob
<1>4. ASSUME NEW i \in DOMAIN engine'
      PROVE  engine'[i].work \in Works
      BY <1>2 DEF WellKeyed, JobMap, Jobs
<1> QED BY <1>3, <1>4, NextIsAhead DEF Entered, Timed

\* RemoveJob and steps beside the engine: the entries left keep their times.
LEMMA KeptTimes ==
    ASSUME Timed, DOMAIN engine' \subseteq DOMAIN engine, Kept
    PROVE  /\ next' \in [DOMAIN engine' -> Nat]
           /\ \A i \in DOMAIN next' : i \in DOMAIN next /\ next'[i] = next[i]
BY DEF Kept, Timed

LEMMA RemovalShrinks ==
    ASSUME TypeOK, NEW id, RemoveJob(id)
    PROVE  DOMAIN engine' \subseteq DOMAIN engine
BY Types, Removal

-------------------------------------------------------------------------------
\* The steps.

LEMMA LaunchStep ==
    ASSUME IInvW, NEW i \in Ids, Launch(i)
    PROVE  Timed' /\ Past' /\ SeenLate' /\ ScheduledIsAhead'
<1>1. engine[i].work \in Works
      BY DEF IInvW, TypeOK, JobMap, Launch, Jobs
<1>2. /\ NextTime[engine[i].work][clock] \in Nat
      /\ NextTime[engine[i].work][clock] = Zero \/ NextTime[engine[i].work][clock] > clock
      BY <1>1, NextIsAhead DEF IInvW, Timed
<1>3. /\ clock \in Nat /\ next[i] \in Nat /\ next[i] <= clock /\ i \in DOMAIN next
      BY WatchdogAssumption DEF IInvW, Timed, Launch, Clock
<1>4. /\ ran \in [Runners -> [Ids -> Nat]] /\ Engine \in Runners /\ Passes \subseteq Runners
      /\ Engine \notin Passes
      BY WatchdogAssumption DEF IInvW, Timed, Runners
<1>5. /\ next' = [next EXCEPT ![i] = NextTime[engine[i].work][clock]]
      /\ ran' = [ran EXCEPT ![Engine][i] = next[i]]
      /\ UNCHANGED <<queue, engine, present, pc, arg, todo, found, failed, clock, seen>>
      BY DEF Launch, vars
<1>6. Timed' /\ Past' /\ SeenLate'
      BY <1>2, <1>3, <1>4, <1>5 DEF IInvW, Timed, Past, SeenLate
<1>7. ASSUME NEW k \in DOMAIN engine, next'[k] # Zero
      PROVE  /\ ran'[Engine][k] < next'[k]
             /\ \A p \in Passes : ran'[p][k] < next'[k] \/ (pc[p] = "g_add" /\ arg[p].id = k)
  <2>1. k \in Ids /\ k \in DOMAIN next
        BY DEF IInvW, TypeOK, JobMap, Timed
  <2>2. CASE k = i
        BY <1>2, <1>3, <1>4, <1>5, <1>7, <2>1, <2>2 DEF IInvW, Past
  <2>3. CASE k # i
        BY <1>4, <1>5, <1>7, <2>1, <2>3 DEF IInvW, ScheduledIsAhead
  <2> QED BY <2>2, <2>3
<1> QED BY <1>5, <1>6, <1>7 DEF ScheduledIsAhead

\* Steps that enter nothing, run nothing and find nothing late.
LEMMA QuietStep ==
    ASSUME IInvW, Kept, DOMAIN engine' \subseteq DOMAIN engine, UNCHANGED <<clock, ran>>,
           \A p \in Passes : seen'[p] = seen[p] \/ seen'[p] = Zero, seen' \in [Passes -> Nat],
           \A p \in Passes :
              /\ seen'[p] # Zero => pc'[p] = pc[p] /\ found'[p] = found[p]
              /\ pc[p] = "g_add" => pc'[p] = pc[p] /\ arg'[p] = arg[p]
    PROVE  Timed' /\ Past' /\ SeenLate' /\ ScheduledIsAhead'
<1>1. /\ next' \in [DOMAIN engine' -> Nat]
      /\ \A i \in DOMAIN next' : i \in DOMAIN next /\ next'[i] = next[i]
      BY KeptTimes DEF IInvW
<1>2. Timed'
      BY <1>1 DEF IInvW, Timed
<1>3. Past'
      BY WatchdogAssumption DEF IInvW, Past, Timed, Clock, Zero
<1>4. SeenLate'
      BY DEF IInvW, SeenLate
<1>5. ScheduledIsAhead'
      BY <1>1 DEF IInvW, ScheduledIsAhead, Timed
<1> QED BY <1>2, <1>3, <1>4, <1>5

\* A step that enters the job of thread t, and nothing else.
LEMMA EnterStep ==
    ASSUME IInvW, NEW t \in Threads, pc[t] \in {"g_add", "c_add"}, AddJob(arg[t]), Entered(arg[t].id),
           UNCHANGED <<clock, ran, seen, found>>,
           \A u \in Threads \ {t} : pc'[u] = pc[u] /\ arg'[u] = arg[u]
    PROVE  Timed' /\ Past' /\ SeenLate' /\ ScheduledIsAhead'
<1>1. arg[t] \in Jobs /\ arg[t].id \in Ids
      BY Types DEF IInvW
<1>2. /\ next' \in [DOMAIN engine' -> Nat]
      /\ \A i \in DOMAIN next' :
            /\ i = arg[t].id => next'[i] = Zero \/ next'[i] > clock
            /\ i # arg[t].id => i \in DOMAIN next /\ next'[i] = next[i]
      BY <1>1, EnteredTimes DEF IInvW
<1>3. Timed' /\ Past'
      BY <1>2 DEF IInvW, Timed, Past
<1>4. SeenLate'
      BY DEF IInvW, SeenLate, Threads
<1>5. clock \in Nat /\ Passes \subseteq Runners /\ Engine \in Runners /\ Passes \subseteq Threads
      BY WatchdogAssumption DEF IInvW, Timed, Clock, Runners, Threads
<1>6. ASSUME NEW i \in DOMAIN engine', next'[i] # Zero
      PROVE  /\ ran[Engine][i] < next'[i]
             /\ \A p \in Passes : ran[p][i] < next'[i] \/ (pc'[p] = "g_add" /\ arg'[p].id = i)
  <2>1. CASE i = arg[t].id
    <3>1. next'[i] \in Nat /\ next'[i] > clock /\ i \in Ids
          BY <1>1, <1>2, <1>6, <2>1
    <3>2. \A r \in Runners : ran[r][i] \in Nat /\ ran[r][i] <= clock
          BY <3>1 DEF IInvW, Past, Timed
    <3> QED BY <1>5, <3>1, <3>2
  <2>2. CASE i # arg[t].id
    <3>1. i \in DOMAIN engine /\ next'[i] = next[i]
          BY <1>2, <2>2 DEF IInvW, Timed
    <3> QED BY <1>5, <1>6, <2>2, <3>1 DEF IInvW, ScheduledIsAhead
  <2> QED BY <2>1, <2>2
<1> QED BY <1>3, <1>4, <1>6 DEF ScheduledIsAhead

LEMMA FindStep ==
    ASSUME IInvW, NEW p \in Passes, Find(p)
    PROVE  Timed' /\ Past' /\ SeenLate' /\ ScheduledIsAhead'
<1> DEFINE id == arg[p].id
<1>1. /\ pc[p] = "g_find" /\ UNCHANGED <<queue, engine, arg, clock, next, ran>>
      /\ pc' = [pc EXCEPT ![p] = "g_get"]
      /\ \/ id \in DOMAIN engine /\ \E a \in {"found", "late"} : found' = [found EXCEPT ![p] = a]
         \/ found' = [found EXCEPT ![p] = "missing"]
      BY DEF Find, GCFind, Goto
<1>2. pc \in [Threads -> PCs] /\ p \in Threads /\ p \in DOMAIN found
      BY DEF IInvW, TypeOK, Threads
<1>3. found'[p] = "late" => id \in DOMAIN engine /\ Late(id)
      BY <1>1, <1>2 DEF Find
<1>4. /\ clock \in Nat
      /\ found'[p] = "late" => next[id] \in Nat /\ next[id] <= clock
      BY <1>3, WatchdogAssumption DEF IInvW, Timed, Clock, Late, Zero
<1>5. seen' = [seen EXCEPT ![p] = IF found'[p] = "late" THEN next[id] ELSE Zero]
      BY DEF Find
<1>6. Timed' /\ Past'
      BY <1>1, <1>4, <1>5 DEF IInvW, Timed, Past, Zero
<1>7. SeenLate'
      BY <1>1, <1>2, <1>5 DEF IInvW, SeenLate, Timed, TypeOK, Zero, Threads
<1>8. ScheduledIsAhead'
      BY <1>1, <1>2 DEF IInvW, ScheduledIsAhead, Threads
<1> QED BY <1>6, <1>7, <1>8

\* A pass that runs the job it found late goes on to enter it.
LEMMA GetExistsStep ==
    ASSUME IInvW, NEW p \in Passes, GetExists(p)
    PROVE  Timed' /\ Past' /\ SeenLate' /\ ScheduledIsAhead'
<1> DEFINE id == arg[p].id
<1>1. /\ pc[p] = "g_get" /\ UNCHANGED <<queue, engine, found, clock, next>>
      /\ \A u \in Threads \ {p} : pc'[u] = pc[u] /\ arg'[u] = arg[u]
      /\ found[p] # "found" => pc' = [pc EXCEPT ![p] = "g_add"] /\ UNCHANGED arg
      BY DEF GetExists, GCGetExists, ContinueIf, Return, Goto, IInvW, TypeOK
<1>2. /\ pc \in [Threads -> PCs] /\ p \in Threads /\ id \in Ids /\ Passes \subseteq Runners
      /\ Engine \in Runners /\ Engine \notin Passes /\ Passes \subseteq Threads
      BY <1>1, Types, WatchdogAssumption DEF IInvW, TypeOK, Threads, Runners
<1>3. CASE seen[p] # Zero
  <2>1. /\ found[p] = "late" /\ ran' = [ran EXCEPT ![p][id] = seen[p]]
        /\ seen' = [seen EXCEPT ![p] = Zero]
        BY <1>3 DEF GetExists, IInvW, SeenLate
  <2>2. pc' = [pc EXCEPT ![p] = "g_add"] /\ UNCHANGED arg
        BY <1>1, <2>1
  <2>3. Timed' /\ Past'
        BY <1>1, <1>2, <2>1, WatchdogAssumption DEF IInvW, Timed, Past, Zero, Clock
  <2>4. SeenLate'
        BY <1>1, <1>2, <2>1 DEF IInvW, SeenLate, Timed
  <2>5. ASSUME NEW i \in DOMAIN engine, next[i] # Zero
        PROVE  /\ ran'[Engine][i] < next[i]
               /\ \A q \in Passes : ran'[q][i] < next[i] \/ (pc'[q] = "g_add" /\ arg'[q].id = i)
    <3>1. i \in Ids /\ ran \in [Runners -> [Ids -> Nat]]
          BY DEF IInvW, TypeOK, JobMap, Timed
    <3>2. ran'[Engine][i] < next[i]
          BY <1>2, <2>1, <2>5, <3>1 DEF IInvW, ScheduledIsAhead
    <3>3. ASSUME NEW q \in Passes
          PROVE  ran'[q][i] < next[i] \/ (pc'[q] = "g_add" /\ arg'[q].id = i)
      <4>1. CASE q = p /\ i = id
            BY <1>2, <2>2, <4>1
      <4>2. CASE q # p \/ i # id
            BY <1>1, <1>2, <2>1, <2>2, <2>5, <3>1, <4>2 DEF IInvW, ScheduledIsAhead
      <4> QED BY <4>1, <4>2
    <3> QED BY <3>2, <3>3
  <2> QED BY <1>1, <2>3, <2>4, <2>5 DEF ScheduledIsAhead
<1>4. CASE seen[p] = Zero
  <2>1. UNCHANGED <<ran, seen>>
        BY <1>4 DEF GetExists
  <2>2. Timed' /\ Past'
        BY <1>1, <2>1 DEF IInvW, Timed, Past
  <2>3. SeenLate'
        BY <1>1, <1>2, <1>4, <2>1 DEF IInvW, SeenLate
  <2>4. ScheduledIsAhead'
        BY <1>1, <1>2, <2>1 DEF IInvW, ScheduledIsAhead
  <2> QED BY <2>2, <2>3, <2>4
<1> QED BY <1>3, <1>4

-------------------------------------------------------------------------------
\* The invariant.

LEMMA PassTimes ==
    ASSUME IInvW, NEW p \in Passes, Start(p) \/ Pass(p) \/ GetError(p)
    PROVE  Timed' /\ Past' /\ SeenLate' /\ ScheduledIsAhead'
<1>1. CASE Find(p)
      BY <1>1, FindStep
<1>2. CASE GetExists(p)
      BY <1>2, GetExistsStep
<1>3. CASE Resubmit(p)
  <2>1. /\ pc[p] = "g_add" /\ AddJob(arg[p]) /\ Entered(arg[p].id) /\ p \in Threads
        /\ UNCHANGED <<clock, ran, seen, found>>
        /\ \A u \in Threads \ {p} : pc'[u] = pc[u] /\ arg'[u] = arg[u]
        BY <1>3 DEF Resubmit, GCAdd, Return, Goto, IInvW, TypeOK, Threads
  <2> QED BY <2>1, EnterStep
<1>4. CASE Remove(p)
  <2>1. RemoveJob(arg[p].id) /\ Kept /\ UNCHANGED <<clock, ran, seen, found, arg>>
        BY <1>4 DEF Remove, GCRemove, DeleteRemove
  <2>2. /\ pc[p] \in {"g_remove", "d_remove"}
        /\ \A q \in Passes : q # p => pc'[q] = pc[q]
        BY <1>4 DEF Remove, GCRemove, DeleteRemove, Goto, IInvW, TypeOK, Threads
  <2>3. seen[p] = Zero /\ seen \in [Passes -> Nat]
        BY <2>2 DEF IInvW, SeenLate, Timed
  <2> QED BY <2>1, <2>2, <2>3, RemovalShrinks, QuietStep DEF IInvW
<1>5. CASE Start(p) \/ Visit(p) \/ GetError(p) \/ GetNotFound(p) \/ Collected(p) \/ End(p)
  <2>1. Kept /\ DOMAIN engine' = DOMAIN engine /\ UNCHANGED <<clock, ran, found>>
    <3>1. UNCHANGED <<engine, next, clock, ran, found>>
          BY <1>5 DEF Start, Visit, GetError, GetNotFound, Collected, End, GCStart, GCVisit,
             GCGetError, GCGetNotFound, DeleteLoad, DeleteDrop, GCEnd
    <3>2. next = [i \in DOMAIN engine |-> next[i]]
          BY DEF IInvW, Timed
    <3> QED BY <3>1, <3>2 DEF Kept
  <2>2. /\ pc[p] \in {"idle", "g_range", "g_get", "d_load", "d_drop"}
        /\ \A q \in Passes : q # p => pc'[q] = pc[q] /\ arg'[q] = arg[q]
        BY <1>5 DEF Start, Visit, GetError, GetNotFound, Collected, End, GCStart, GCVisit,
           GCGetError, GCGetNotFound, DeleteLoad, DeleteDrop, GCEnd, ContinueIf, Return, Goto,
           IInvW, TypeOK, Threads
  <2>3. \/ seen' = seen /\ seen[p] = Zero
        \/ seen' = [seen EXCEPT ![p] = Zero]
        BY <1>5 DEF Start, Visit, GetError, GetNotFound, Collected, End, IInvW, SeenLate, GCStart,
           GCVisit, DeleteLoad, DeleteDrop, GCEnd
  <2>4. seen' \in [Passes -> Nat] /\ seen \in [Passes -> Nat]
        BY <2>3 DEF IInvW, Timed, Zero
  <2> QED BY <2>1, <2>2, <2>3, <2>4, QuietStep
<1> QED BY <1>1, <1>2, <1>3, <1>4, <1>5 DEF Pass

LEMMA WorkerTimes ==
    ASSUME IInvW, Worker
    PROVE  Timed' /\ Past' /\ SeenLate' /\ ScheduledIsAhead'
<1> R \in Threads /\ Passes \subseteq Threads /\ R \notin Passes
    BY Types DEF IInvW
<1>1. CASE CreateAdd /\ arg[R].work \in Parses
  <2>1. /\ pc[R] = "c_add" /\ AddJob(arg[R]) /\ Entered(arg[R].id)
        /\ UNCHANGED <<clock, ran, seen, found>>
        /\ \A u \in Threads \ {R} : pc'[u] = pc[u] /\ arg'[u] = arg[u]
    <3>1. ~ (DeleteRemove(R) \/ CreateStore \/ DeleteDrop(R) \/ \E id \in Ids : CallDelete(id))
          BY <1>1 DEF CreateAdd, DeleteRemove, CreateStore, DeleteDrop, CallDelete
    <3>2. ~ \E j \in Jobs : CreateLoad(j)
          BY <1>1 DEF CreateAdd, CreateLoad
    <3> QED BY <1>1, <3>1, <3>2 DEF Worker, CreateAdd, ContinueIf, Return, Goto, IInvW, TypeOK
  <2> QED BY <2>1, EnterStep
<1>2. CASE ~(CreateAdd /\ arg[R].work \in Parses)
  <2>1. UNCHANGED <<clock, ran, seen, found>>
        BY <1>2 DEF Worker, CreateLoad, CreateAdd, DeleteRemove, CreateStore, DeleteDrop, CallDelete
  <2>2. \A p \in Passes : pc'[p] = pc[p] /\ arg'[p] = arg[p]
        BY <1>2 DEF Worker, CreateLoad, CreateAdd, DeleteRemove, CreateStore, DeleteDrop, CallDelete,
           ContinueIf, Return, Goto, IInvW, TypeOK
  <2>3. DOMAIN engine' \subseteq DOMAIN engine
    <3>1. CASE DeleteRemove(R)
          BY <3>1, RemovalShrinks DEF DeleteRemove, IInvW
    <3>2. CASE ~DeleteRemove(R)
          BY <1>2, <3>2 DEF Worker, CreateLoad, CreateAdd, AddJob, CreateStore, DeleteDrop, CallDelete
    <3> QED BY <3>1, <3>2
  <2>4. Kept
    <3>1. CASE \E j \in Jobs : CreateLoad(j) /\ UNCHANGED next
      <4>1. UNCHANGED <<engine, next>>
            BY <3>1 DEF CreateLoad
      <4>2. next = [i \in DOMAIN engine |-> next[i]]
            BY DEF IInvW, Timed
      <4> QED BY <4>1, <4>2 DEF Kept
    <3> QED BY <1>2, <3>1 DEF Worker
  <2> QED BY <2>1, <2>2, <2>3, <2>4, QuietStep DEF IInvW, Timed
<1> QED BY <1>1, <1>2

LEMMA InvStep == IInvW /\ [WNext]_allVars => IInvW'
<1> SUFFICES ASSUME IInvW, [WNext]_allVars PROVE IInvW'
    OBVIOUS
<1>1. TypeOK'
      BY ManagersStep, TypeStep DEF IInvW
<1>2. CASE Tick
  <2>1. clock' = clock + 1 /\ clock' \in Clock /\ clock \in Nat
        BY <1>2, WatchdogAssumption DEF Tick, IInvW, Timed, Clock
  <2>2. UNCHANGED <<vars, next, seen, ran>>
        BY <1>2 DEF Tick
  <2> QED BY <1>1, <2>1, <2>2 DEF vars, IInvW, Timed, Past, SeenLate, ScheduledIsAhead
<1>3. ASSUME NEW i \in Ids, Report(i)
      PROVE  IInvW'
      BY <1>1, <1>3 DEF Report, vars, IInvW, Timed, Past, SeenLate, ScheduledIsAhead
<1>4. ASSUME NEW h \in Hpas, Gone(h)
      PROVE  IInvW'
      BY <1>1, <1>4 DEF Gone, Vanish, IInvW, Timed, Past, SeenLate, ScheduledIsAhead
<1>5. CASE UNCHANGED allVars
      BY <1>1, <1>5 DEF allVars, timeVars, vars, IInvW, Timed, Past, SeenLate, ScheduledIsAhead
<1> QED BY <1>1, <1>2, <1>3, <1>4, <1>5, LaunchStep, PassTimes, WorkerTimes DEF WNext, IInvW

LEMMA InvInit == WInit => IInvW /\ Counted
<1> SUFFICES ASSUME WInit PROVE IInvW /\ Counted
    OBVIOUS
<1>1. TypeOK
      BY InitIInv DEF WInit, IInv
<1>2. DOMAIN engine = {} /\ next = [i \in {} |-> 0]
      BY DEF WInit, Init
<1>3. Timed /\ Past /\ SeenLate /\ ScheduledIsAhead
      BY <1>2, WatchdogAssumption DEF WInit, Timed, Past, SeenLate, ScheduledIsAhead, Clock, Zero
<1>4. Counted
      BY FS_EmptySet DEF WInit, Init, Counted
<1> QED BY <1>1, <1>3, <1>4 DEF IInvW

\* What is scheduled is later than what the engine or a pass has run of it, so
\* that nothing is run twice by the same of them.
THEOREM Ahead == WSpec => []ScheduledIsAhead
BY InvInit, InvStep, PTL DEF WSpec, IInvW

-------------------------------------------------------------------------------
\* Type correctness.  The total is a number, for the queue is finite: jobs enter
\* it one by one.

LEMMA QueueStep ==
    ASSUME IInvW, IsFiniteSet(DOMAIN queue), [WNext]_allVars
    PROVE  IsFiniteSet(DOMAIN queue')
<1>1. DOMAIN queue' \subseteq DOMAIN queue \/ \E id \in Ids : DOMAIN queue' \subseteq DOMAIN queue \cup {id}
  <2>1. CASE CreateStore
        BY <2>1, Types, ScheduledTable DEF CreateStore, Store, IInvW
  <2>2. ASSUME NEW t \in Threads, DeleteDrop(t)
        PROVE  DOMAIN queue' \subseteq DOMAIN queue
        BY <2>2 DEF DeleteDrop, Table!Unscheduled
  <2>3. CASE UNCHANGED queue
        BY <2>3
  <2>4. \/ CreateStore \/ (\E t \in Threads : DeleteDrop(t)) \/ UNCHANGED queue
    <3>1. ASSUME NEW p \in Passes, Start(p) \/ Pass(p) \/ GetError(p)
          PROVE  DeleteDrop(p) \/ UNCHANGED queue
          BY <3>1 DEF Start, Pass, GetError, Visit, Find, GetExists, GetNotFound, Resubmit, Remove,
             Collected, End, GCStart, GCVisit, GCFind, GCGetExists, GCGetError, GCGetNotFound,
             GCAdd, GCRemove, DeleteRemove, DeleteLoad, GCEnd
    <3>2. CASE Worker
          BY <3>2 DEF Worker, CreateLoad, CreateAdd, DeleteRemove, CallDelete, Threads
    <3>3. CASE Tick \/ (\E i \in Ids : Launch(i) \/ Report(i)) \/ (\E h \in Hpas : Gone(h))
               \/ UNCHANGED allVars
          BY <3>3 DEF Tick, Launch, Report, Gone, Vanish, allVars, vars
    <3> QED BY <3>1, <3>2, <3>3 DEF WNext, Threads
  <2> QED BY <2>1, <2>2, <2>3, <2>4, Types DEF IInvW, CreateStore
<1>2. \A id : IsFiniteSet(DOMAIN queue \cup {id})
      BY FS_AddElement
<1> QED BY <1>1, <1>2, FS_Subset

LEMMA CountedStep == IInvW /\ Counted /\ [WNext]_allVars => Counted'
<1> SUFFICES ASSUME IInvW, Counted, [WNext]_allVars PROVE Counted'
    OBVIOUS
<1>1. IsFiniteSet(DOMAIN queue')
      BY QueueStep DEF Counted
<1>2. ASSUME NEW S, Count(S)
      PROVE  gauge' \in [Gauges -> Nat]
      BY <1>2 DEF Counted, Count
<1>3. ASSUME NEW p \in Passes, Pass(p) \/ Start(p) \/ GetError(p)
      PROVE  gauge' \in [Gauges -> Nat] /\ UNCHANGED <<cond, known>> /\ steady' \subseteq Passes
  <2>1. UNCHANGED <<cond, known>>
        BY <1>3 DEF Pass, Start, Visit, Find, GetExists, GetNotFound, GetError, Resubmit, Remove,
           Collected, End
  <2>2. steady' \subseteq Passes
        BY <1>3 DEF Pass, Start, Visit, Find, GetExists, GetNotFound, GetError, Resubmit, Remove,
           Collected, End, Alone, Counted
  <2>3. ASSUME Start(p)
        PROVE  gauge' \in [Gauges -> Nat]
        BY <2>3 DEF Start, Reset, Counted
  <2>4. ASSUME GetExists(p) \/ GetError(p) \/ Resubmit(p) \/ Collected(p)
        PROVE  gauge' \in [Gauges -> Nat]
        BY <1>2, <2>4 DEF GetExists, GetError, Resubmit, Collected, Counted
  <2>5. ASSUME Visit(p) \/ Find(p) \/ GetNotFound(p) \/ Remove(p)
        PROVE  gauge' \in [Gauges -> Nat]
        BY <2>5 DEF Visit, Find, GetNotFound, Remove, Counted
  <2>6. ASSUME End(p)
        PROVE  gauge' \in [Gauges -> Nat]
        BY <2>6, FS_CardinalityType DEF End, Counted
  <2> QED BY <1>3, <2>1, <2>2, <2>3, <2>4, <2>5, <2>6 DEF Pass
<1>4. CASE Worker
  <2>1. known' \subseteq Ids
        BY <1>4 DEF Worker, Counted, Jobs
  <2> QED BY <1>1, <1>4, <2>1 DEF Worker, Counted
<1>5. ASSUME NEW i \in Ids, Launch(i) \/ Report(i)
      PROVE  Counted'
      BY <1>1, <1>5 DEF Launch, Report, Counted
<1>6. CASE Tick \/ (\E h \in Hpas : Gone(h)) \/ UNCHANGED allVars
      BY <1>1, <1>6 DEF Tick, Gone, Counted, allVars, timeVars
<1>7. ASSUME NEW p \in Passes, Pass(p) \/ Start(p) \/ GetError(p)
      PROVE  Counted'
      BY <1>1, <1>3, <1>7 DEF Counted
<1> QED BY <1>4, <1>5, <1>6, <1>7 DEF WNext

\* The times, the conditions and the gauges keep their types.
THEOREM WatchdogTypes == WSpec => []WTypeOK
<1>1. IInvW /\ Counted => WTypeOK
      BY DEF IInvW, Timed, Counted, WTypeOK
<1> QED BY <1>1, InvInit, InvStep, CountedStep, PTL DEF WSpec

-------------------------------------------------------------------------------
\* The gauges.  TotalAddsUp looks at the end of a pass only.  While nothing else
\* happens, the three gauges have counted the jobs that the pass is through with
\* (Tally): all of the queue but what is left to visit and the job at hand.

Sum == gauge["successful"] + gauge["submitted"] + gauge["failed"]

AtHand(p) ==
    IF pc[p] \in {"g_find", "g_get", "g_remove", "d_load", "d_remove", "d_drop"}
    THEN {arg[p].id} ELSE {}

Tallied(p) ==
    /\ pc[p] \notin {"idle", "g_range"} => AtHand(p) = {arg[p].id}
    /\ AtHand(p) \cap todo[p] = {}
    /\ AtHand(p) \cup todo[p] \subseteq DOMAIN queue
    /\ Sum = Cardinality(DOMAIN queue \ (todo[p] \cup AtHand(p)))

Tally == \A p \in steady : pc[p] # "idle" => Tallied(p)

\* Nothing else: a step of another leaves the pass unsteady.
LEMMA OnlyThePass ==
    ASSUME [WNext]_allVars, NEW p \in Passes, p \in steady'
    PROVE  \/ Start(p)
           \/ p \in steady /\ Pass(p)
           \/ p \in steady /\ UNCHANGED <<pc, arg, todo, queue, gauge>>
<1>1. ASSUME NEW q \in Passes, Start(q) \/ Pass(q) \/ GetError(q)
      PROVE  Start(p) \/ (p \in steady /\ Pass(p))
  <2>1. ASSUME Start(q)
        PROVE  q = p
        BY <2>1 DEF Start
  <2>2. ASSUME Pass(q)
        PROVE  q = p /\ p \in steady
        BY <2>2 DEF Pass, Visit, Find, GetExists, GetNotFound, Resubmit, Remove, Collected, End, Alone
  <2>3. ~GetError(q)
        BY DEF GetError
  <2> QED BY <1>1, <2>1, <2>2, <2>3
<1>2. ~Worker /\ (\A i \in Ids : ~Launch(i) /\ ~Report(i)) /\ \A h \in Hpas : ~Gone(h)
      BY DEF Worker, Launch, Report, Gone
<1>3. CASE Tick \/ UNCHANGED allVars
      BY <1>3 DEF Tick, allVars, timeVars, vars
<1> QED BY <1>1, <1>2, <1>3 DEF WNext

\* The jobs a pass is through with once it is through with x too.
LEMMA OneMore ==
    ASSUME NEW S, IsFiniteSet(S), NEW T, NEW x \in S, x \notin T
    PROVE  Cardinality(S \ T) = Cardinality(S \ (T \cup {x})) + 1
<1>1. IsFiniteSet(S \ T)
      BY FS_Subset
<1>2. S \ (T \cup {x}) = (S \ T) \ {x} /\ x \in S \ T
      OBVIOUS
<1>3. Cardinality(S \ T) \in Nat
      BY <1>1, FS_CardinalityType
<1>4. Cardinality((S \ T) \ {x}) = Cardinality(S \ T) - 1
      BY <1>1, <1>2, FS_RemoveElement
<1>5. Cardinality(S \ (T \cup {x})) = Cardinality(S \ T) - 1
      BY <1>2, <1>4
<1> QED BY <1>3, <1>5

LEMMA TallyPass ==
    ASSUME IInvW, Counted, Tally, NEW p \in Passes, p \in steady, p \in steady', Pass(p), pc'[p] # "idle"
    PROVE  Tallied(p)'
<1>1. /\ p \in Threads /\ pc \in [Threads -> PCs] /\ todo \in [Passes -> SUBSET Ids]
      /\ DOMAIN arg = Threads /\ gauge \in [Gauges -> Nat]
      BY DEF IInvW, TypeOK, Threads, Counted
<1>2. pc[p] # "idle" /\ Tallied(p)
  <2>1. pc[p] # "idle"
        BY DEF Pass, Visit, Find, GetExists, GetNotFound, Resubmit, Remove, Collected, End, GCVisit,
           GCFind, GCGetExists, GCGetNotFound, GCAdd, GCRemove, DeleteRemove, DeleteLoad, DeleteDrop,
           GCEnd
  <2> QED BY <2>1 DEF Tally
<1>3. CASE Visit(p)
  <2>1. PICK id \in Ids : GCVisit(p, id)
        BY <1>3 DEF Visit
  <2>2. /\ pc[p] = "g_range" /\ id \in todo[p] /\ UNCHANGED <<queue, gauge>>
        /\ todo'[p] = todo[p] \ {id}
        BY <1>1, <1>3, <2>1 DEF GCVisit, Visit
  <2>3. id \in DOMAIN queue /\ AtHand(p) = {}
        BY <1>2, <2>2 DEF Tallied, AtHand
  <2>4. queue[id].id = id
        BY <2>3 DEF IInvW, TypeOK
  <2>5. pc'[p] = "g_find" /\ arg'[p].id = id
        BY <1>1, <2>1, <2>3, <2>4 DEF GCVisit, Goto
  <2>6. AtHand(p)' = {id} /\ todo'[p] \cup {id} = todo[p] \cup {}
        BY <2>2, <2>5 DEF AtHand
  <2> QED BY <1>2, <2>2, <2>3, <2>5, <2>6 DEF Tallied, Sum
<1>4. CASE Find(p) \/ GetNotFound(p) \/ Remove(p) \/ (Collected(p) /\ pc'[p] # "g_range")
  <2>1. UNCHANGED <<queue, todo, gauge>> /\ arg'[p] = arg[p]
        BY <1>1, <1>4 DEF Find, GetNotFound, Remove, Collected, GCFind, GCGetNotFound, GCRemove,
           DeleteRemove, DeleteLoad, DeleteDrop, ContinueIf, Return, Goto, Threads
  <2>2. /\ pc[p] \in {"g_find", "g_get", "g_remove", "d_load", "d_remove", "d_drop"}
        /\ pc'[p] \in {"g_find", "g_get", "g_remove", "d_load", "d_remove", "d_drop"}
        BY <1>1, <1>4 DEF Find, GetNotFound, Remove, Collected, GCFind, GCGetNotFound, GCRemove,
           DeleteRemove, DeleteLoad, DeleteDrop, ContinueIf, Return, Goto
  <2>3. AtHand(p)' = AtHand(p) /\ AtHand(p)' = {arg'[p].id}
        BY <2>1, <2>2 DEF AtHand
  <2> QED BY <1>2, <2>1, <2>3 DEF Tallied, Sum
<1>5. CASE GetExists(p)
  <2> DEFINE id == arg[p].id
  <2>1. /\ pc[p] = "g_get" /\ found[p] = "found" /\ cond[id] # "none" /\ id \in Ids
        /\ Count(GaugeOf(cond[id])) /\ UNCHANGED <<queue, todo>>
        BY <1>5, Types DEF GetExists, GCGetExists, IInvW
  <2>2. pc'[p] = "g_range"
        BY <1>1, <1>5, <2>1, Types DEF GetExists, GCGetExists, ContinueIf, Return, Goto, IInvW
  <2>3. AtHand(p) = {id} /\ AtHand(p)' = {}
        BY <2>1, <2>2 DEF AtHand
  <2>4. cond[id] \in {"Submitted", "Succeed", "Failed"}
        BY <2>1 DEF Counted
  <2>5. Sum' = Sum + 1
        BY <1>1, <2>1, <2>4 DEF Count, GaugeOf, Sum, Gauges
  <2>6. id \in DOMAIN queue /\ id \notin todo[p]
        BY <1>2, <2>3 DEF Tallied
  <2>7. Cardinality(DOMAIN queue \ todo[p]) = Cardinality(DOMAIN queue \ (todo[p] \cup {id})) + 1
        BY <2>6, OneMore DEF Counted
  <2>8. todo'[p] \cup AtHand(p)' = todo[p]
        BY <2>1, <2>3
  <2> QED BY <1>2, <2>1, <2>2, <2>3, <2>5, <2>7, <2>8 DEF Tallied
<1>6. CASE Resubmit(p)
      BY <1>2, <1>6 DEF Resubmit, GCAdd, Tallied, AtHand
<1>7. CASE Collected(p) /\ pc'[p] = "g_range"
  <2> DEFINE id == arg[p].id
  <2>1. pc[p] \in {"d_load", "d_drop"} /\ found[p] = "found" /\ UNCHANGED todo
        BY <1>7 DEF Collected, DeleteLoad, DeleteDrop
  <2>2. AtHand(p) = {id} /\ AtHand(p)' = {}
        BY <1>7, <2>1 DEF AtHand
  <2>3. id \in DOMAIN queue /\ id \notin todo[p]
        BY <1>2, <2>2 DEF Tallied
  <2>4. DeleteDrop(p)
        BY <1>1, <1>7, <2>3 DEF Collected, DeleteLoad, ContinueIf, Goto
  <2>5. DOMAIN queue' = DOMAIN queue \ {id}
        BY <2>4 DEF DeleteDrop, Table!Unscheduled
  <2>6. Sum' = Sum
        BY <1>1, <1>7, <2>1 DEF Collected, Count, Resubmitted, Sum, Gauges
  <2>7. DOMAIN queue' \ (todo'[p] \cup AtHand(p)') = DOMAIN queue \ (todo[p] \cup {id})
        BY <2>1, <2>2, <2>5
  <2> QED BY <1>2, <1>7, <2>1, <2>2, <2>3, <2>5, <2>6, <2>7 DEF Tallied
<1>8. CASE End(p)
      BY <1>1, <1>8 DEF End, GCEnd, Goto
<1> QED BY <1>3, <1>4, <1>5, <1>6, <1>7, <1>8 DEF Pass

LEMMA TallyStep == IInvW /\ Counted /\ Tally /\ [WNext]_allVars => Tally'
<1> SUFFICES ASSUME IInvW, Counted, Tally, [WNext]_allVars,
                    NEW p \in steady', pc'[p] # "idle"
             PROVE  Tallied(p)'
    BY DEF Tally
<1>0. p \in Passes
      BY CountedStep DEF Counted
<1>1. CASE Start(p)
  <2>1. /\ todo'[p] = DOMAIN queue /\ UNCHANGED queue /\ pc'[p] = "g_range"
        BY <1>0, <1>1 DEF Start, GCStart, Goto, IInvW, TypeOK, Threads
  <2>2. AtHand(p)' = {}
        BY <2>1 DEF AtHand
  <2>3. Sum' = 0
        BY <1>1 DEF Start, Reset, Sum, Gauges
  <2>4. Cardinality(DOMAIN queue' \ (todo'[p] \cup AtHand(p)')) = 0
    <3>1. DOMAIN queue' \ (todo'[p] \cup AtHand(p)') = {}
          BY <2>1, <2>2
    <3> QED BY <3>1, FS_EmptySet
  <2> QED BY <2>1, <2>2, <2>3, <2>4 DEF Tallied
<1>2. CASE p \in steady /\ Pass(p)
      BY <1>0, <1>2, TallyPass
<1>3. CASE p \in steady /\ UNCHANGED <<pc, arg, todo, queue, gauge>>
      BY <1>3 DEF Tally, Tallied, AtHand, Sum
<1> QED BY <1>0, <1>1, <1>2, <1>3, OnlyThePass

\* After an undisturbed pass, which found every job in the engine and a condition
\* for it or its CronHPA gone, the total is the sum of the other three gauges
\* (metrics.go:7), for any number of jobs.
THEOREM AddsUp == WSpec => TotalAddsUp
<1>1. WInit => Tally
      BY DEF WInit, Tally
<1>2. ASSUME IInvW, Counted, Tally, NEW p \in Passes, End(p), p \in steady
      PROVE  gauge'["total"] = gauge'["successful"] + gauge'["submitted"] + gauge'["failed"]
  <2>1. pc[p] = "g_range" /\ todo[p] = {} /\ AtHand(p) = {}
        BY <1>2 DEF End, GCEnd, AtHand
  <2>2. Sum = Cardinality(DOMAIN queue)
    <3>1. DOMAIN queue \ (todo[p] \cup AtHand(p)) = DOMAIN queue
          BY <2>1
    <3> QED BY <1>2, <2>1, <3>1 DEF Tally, Tallied
  <2>3. /\ gauge'["total"] = Cardinality(DOMAIN queue)
        /\ \A g \in {"successful", "submitted", "failed"} : gauge'[g] = gauge[g]
        BY <1>2 DEF End, Counted, Gauges
  <2> QED BY <2>2, <2>3 DEF Sum
<1>3. IInvW /\ Counted /\ Tally /\ [WNext]_allVars =>
         [\A p \in Passes : End(p) /\ p \in steady =>
             gauge'["total"] =
                 gauge'["successful"] + gauge'["submitted"] + gauge'["failed"]]_allVars
      BY <1>2
<1> QED BY <1>1, <1>3, InvInit, InvStep, CountedStep, TallyStep, PTL DEF WSpec, TotalAddsUp
===============================================================================
