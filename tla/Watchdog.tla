------------------------------- MODULE Watchdog -------------------------------
(***************************************************************************)
(* What garbage collection does besides collecting                         *)
(* (pkg/controller/cronmanager.go GC, cronexecutor.go FindJob,             *)
(* metrics.go): a pass runs the jobs whose activation the engine has let   *)
(* pass by more than five minutes and schedules them afresh, and counts    *)
(* all jobs on five gauges which it resets when it begins.                 *)
(*                                                                         *)
(* The module adds to CronManager what that rests on: a clock, the next    *)
(* activation of each entry of the engine, the conditions in the status of *)
(* the CronHPAs, and the gauges.  Every step of a thread is a step of      *)
(* CronManager and what it does to these.  The engine launches a due entry *)
(* at any time or not at all, for its timer may be late for hours          *)
(* (SleepsUntilDue of CronEngine fails); it serves calls all the same.     *)
(* Reconcile tracks and deletes jobs; its updates are left to CronManager. *)
(*                                                                         *)
(* Atomicity: the gauges are set in the step of the pass that the calls    *)
(* of Set or Add follow.                                                   *)
(***************************************************************************)
EXTENDS CronManager, FiniteSets

CONSTANTS MaxTime,     \* the last value of the clock
          MaxLate,     \* maxOutOfDateTimeout
          NextTime,    \* the next activation of a work's plan strictly after a time
          Engine       \* the engine as one that runs jobs, besides the passes

Zero == 0
Clock == 0 .. MaxTime

ASSUME WatchdogAssumption ==
    /\ MaxTime \in Nat /\ MaxLate \in Nat
    /\ NextTime \in [Works -> [Clock -> Nat]]
    /\ \A w \in Works, x \in Clock : NextTime[w][x] = Zero \/ NextTime[w][x] > x
    /\ Engine \notin Passes

Runners == Passes \cup {Engine}

VARIABLES
    clock,    \* the wall clock
    next,     \* Next of the engine's entries
    cond,     \* the state of each job's condition, if its CronHPA has one for it
    known,    \* the identifiers given out, each of them once
    gauge,    \* the gauges of metrics.go
    seen,     \* history: the activation each pass found late and has not run yet
    ran,      \* history: the last activation of each job that each runner ran
    steady    \* history: the passes during which nothing else happened

timeVars == <<clock, next, cond, known, gauge, seen, ran, steady>>

allVars == <<vars, timeVars>>

Gauges == {"total", "submitted", "successful", "failed", "expired"}

WTypeOK ==
    /\ TypeOK
    /\ clock \in Clock
    /\ next \in [DOMAIN engine -> Nat]
    /\ cond \in [Ids -> {"none", "Submitted", "Succeed", "Failed"}]
    /\ known \subseteq Ids
    /\ gauge \in [Gauges -> Nat]
    /\ seen \in [Passes -> Nat]
    /\ ran \in [Runners -> [Ids -> Nat]]
    /\ steady \subseteq Passes

WInit ==
    /\ Init
    /\ clock = 0
    /\ next = [i \in {} |-> 0]
    /\ cond = [i \in Ids |-> "none"]
    /\ known = {}
    /\ gauge = [g \in Gauges |-> 0]
    /\ seen = [p \in Passes |-> Zero]
    /\ ran = [r \in Runners |-> [i \in Ids |-> Zero]]
    /\ steady = {}

-------------------------------------------------------------------------------
\* The engine's entries.

\* AddJob of id: a new entry, its activation computed from the present.
Entered(id) ==
    next' = [i \in DOMAIN engine' |->
                IF i = id THEN NextTime[engine'[i].work][clock] ELSE next[i]]

\* Mutant: the entry that is removed keeps its time.
KeptAll == UNCHANGED next

Kept == next' = [i \in DOMAIN engine' |-> next[i]]

\* The loop launches an entry that is due and advances it.
Launch(i) ==
    /\ i \in DOMAIN engine
    /\ next[i] # Zero /\ next[i] <= clock
    /\ next' = [next EXCEPT ![i] = NextTime[engine[i].work][clock]]
    /\ ran' = [ran EXCEPT ![Engine][i] = next[i]]
    /\ steady' = {}
    /\ UNCHANGED <<vars, clock, cond, known, gauge, seen>>

\* FindJob: late when five minutes after its activation are over, as they always
\* are after the zero time.
Late(i) == next[i] = Zero \/ next[i] + MaxLate <= clock

-------------------------------------------------------------------------------
\* The gauges.

\* Mutant: the failed jobs are not counted anew.
ResetButFailed == gauge' = [g \in Gauges |-> IF g \in {"total", "failed"} THEN gauge[g] ELSE 0]

Reset == gauge' = [g \in Gauges |-> IF g = "total" THEN gauge[g] ELSE 0]

Count(S) == gauge' = [g \in Gauges |-> IF g \in S THEN gauge[g] + 1 ELSE gauge[g]]

\* The gauge of a condition's state.
GaugeOf(state) ==
    CASE state = "Succeed"   -> {"successful"}
      [] state = "Failed"    -> {"failed"}
      [] state = "Submitted" -> {"submitted"}
      [] state = "none"      -> {}

\* What a pass counts for a job it did not find.
Resubmitted(p) == IF found[p] = "found" THEN {} ELSE {"failed", "submitted"}

-------------------------------------------------------------------------------
\* A pass.

Alone(p) == steady' = steady \cap {p}

Start(p) ==
    /\ GCStart(p)
    /\ Reset
    /\ steady' = IF \A u \in Threads \ {p} : pc[u] = "idle" THEN {p} ELSE {}
    /\ UNCHANGED <<clock, next, cond, known, seen, ran>>

Visit(p) ==
    /\ \E id \in Ids : GCVisit(p, id)
    /\ Alone(p)
    /\ UNCHANGED <<clock, next, cond, known, gauge, seen, ran>>

\* Mutant: any entry will do, late or not.
FindAnyTime(p) ==
    /\ GCFind(p)
    /\ found'[p] # "late"
    /\ seen' = [seen EXCEPT ![p] = Zero]
    /\ Alone(p)
    /\ UNCHANGED <<clock, next, cond, known, gauge, ran>>

Find(p) ==
    LET id == arg[p].id IN
    /\ GCFind(p)
    /\ id \in DOMAIN engine /\ found'[p] # "missing" =>
          found'[p] = IF Late(id) THEN "late" ELSE "found"
    /\ seen' = [seen EXCEPT ![p] = IF found'[p] = "late" THEN next[id] ELSE Zero]
    /\ Alone(p)
    /\ UNCHANGED <<clock, next, cond, known, gauge, ran>>

\* The CronHPA is read: a job that was found is counted by its condition in it,
\* one that is late is run there and then.
GetExists(p) ==
    LET id == arg[p].id IN
    /\ GCGetExists(p)
    /\ Count(IF found[p] = "found" THEN GaugeOf(cond[id]) ELSE {})
    /\ IF seen[p] # Zero
       THEN ran' = [ran EXCEPT ![p][id] = seen[p]] /\ seen' = [seen EXCEPT ![p] = Zero]
       ELSE UNCHANGED <<ran, seen>>
    /\ steady' = IF found[p] = "found" /\ cond[id] # "none" THEN steady \cap {p} ELSE {}
    /\ UNCHANGED <<clock, next, cond, known>>

\* After an error there is no instance, so a job that was found is not counted.
GetError(p) ==
    /\ GCGetError(p)
    /\ Count(Resubmitted(p))
    /\ seen' = [seen EXCEPT ![p] = Zero]
    /\ steady' = {}
    /\ UNCHANGED <<clock, next, cond, known, ran>>

GetNotFound(p) ==
    /\ GCGetNotFound(p)
    /\ seen' = [seen EXCEPT ![p] = Zero]
    /\ Alone(p)
    /\ UNCHANGED <<clock, next, cond, known, gauge, ran>>

\* Mutant: an entry the engine has keeps its time.
ResubmitOverKept(p) ==
    /\ GCAdd(p)
    /\ IF arg[p].id \in DOMAIN engine THEN Kept ELSE Entered(arg[p].id)
    /\ Count(Resubmitted(p))
    /\ Alone(p)
    /\ UNCHANGED <<clock, cond, known, seen, ran>>

\* AddJob of a job that was not found; after it the job is counted twice.
Resubmit(p) ==
    /\ GCAdd(p)
    /\ Entered(arg[p].id)
    /\ Count(Resubmitted(p))
    /\ Alone(p)
    /\ UNCHANGED <<clock, cond, known, seen, ran>>

\* RemoveJob, by GC itself or by the delete it calls.
Remove(p) ==
    /\ GCRemove(p) \/ DeleteRemove(p)
    /\ Kept
    /\ Alone(p)
    /\ UNCHANGED <<clock, cond, known, gauge, seen, ran>>

\* The end of delete, which is also where it finds nothing to delete.
Collected(p) ==
    /\ DeleteLoad(p) \/ DeleteDrop(p)
    /\ IF pc'[p] = "g_range" THEN Count({"expired"} \cup Resubmitted(p)) ELSE UNCHANGED gauge
    /\ steady' = IF found[p] = "found" THEN steady \cap {p} ELSE {}
    /\ UNCHANGED <<clock, next, cond, known, seen, ran>>

End(p) ==
    /\ GCEnd(p)
    /\ gauge' = [gauge EXCEPT !["total"] = Cardinality(DOMAIN queue)]
    /\ Alone(p)
    /\ UNCHANGED <<clock, next, cond, known, seen, ran>>

Pass(p) ==
    \/ Visit(p) \/ Find(p) \/ GetExists(p) \/ GetNotFound(p)
    \/ Resubmit(p) \/ Remove(p) \/ Collected(p) \/ End(p)

-------------------------------------------------------------------------------
\* The worker and the rest of the world.

\* createOrUpdate of a job that is not tracked yet, and delete.
Worker ==
    /\ \/ \E j \in Jobs :
             /\ j.id \notin known /\ Owner[j.id] \in present
             /\ CreateLoad(j)
             /\ known' = known \cup {j.id}
             /\ UNCHANGED next
       \/ /\ \/ CreateAdd /\ IF arg[R].work \in Parses THEN Entered(arg[R].id) ELSE Kept
             \/ DeleteRemove(R) /\ Kept
             \/ (CreateStore \/ DeleteDrop(R) \/ \E id \in Ids : CallDelete(id)) /\ Kept
          /\ UNCHANGED known
    /\ steady' = {}
    /\ UNCHANGED <<clock, cond, gauge, seen, ran>>

\* The status of a CronHPA: Reconcile writes Submitted for a job it has created,
\* the result handler how a run of it has ended.
Report(i) ==
    /\ i \in DOMAIN queue /\ Owner[i] \in present
    /\ \E state \in IF cond[i] = "none" THEN {"Submitted"} ELSE {"Succeed", "Failed"} :
          cond' = [cond EXCEPT ![i] = state]
    /\ steady' = {}
    /\ UNCHANGED <<vars, clock, next, known, gauge, seen, ran>>

Gone(h) ==
    /\ Vanish(h)
    /\ steady' = {}
    /\ UNCHANGED <<clock, next, cond, known, gauge, seen, ran>>

Tick ==
    /\ clock < MaxTime
    /\ clock' = clock + 1
    /\ UNCHANGED <<vars, next, cond, known, gauge, seen, ran, steady>>

WNext ==
    \/ \E i \in Ids : Launch(i) \/ Report(i)
    \/ \E p \in Passes : Start(p) \/ Pass(p) \/ GetError(p)
    \/ Worker
    \/ \E h \in Hpas : Gone(h)
    \/ Tick

WSpec == WInit /\ [][WNext]_allVars

\* The passes run and the ticker starts them again; reading the cache does not
\* fail for ever.  The engine's timer owes nothing.
WFairness ==
    \A p \in Passes :
        /\ WF_allVars(Start(p))
        /\ WF_allVars(Pass(p) \/ GetError(p))
        /\ SF_allVars(GetExists(p) \/ GetNotFound(p))

WFairSpec == WSpec /\ WFairness
-------------------------------------------------------------------------------
\* Properties.

\* What is scheduled is later than what the engine or a pass has run of it, except
\* for a pass that is about to schedule the job afresh.  So no activation
\* is run twice by the same of them, however the timer, the passes and their
\* stale answers are interleaved (cronmanager.go:251-263, cronexecutor.go:48-61).
ScheduledIsAhead ==
    \A i \in DOMAIN engine : next[i] # Zero =>
        /\ ran[Engine][i] < next[i]
        /\ \A p \in Passes :
              ran[p][i] < next[i] \/ (pc[p] = "g_add" /\ arg[p].id = i)

\* The schedule of a work never ends.
Recurs(w) == \A x \in Clock : NextTime[w][x] # Zero

Overdue(i) ==
    /\ i \in DOMAIN queue \cap DOMAIN engine
    /\ Owner[i] \in present
    /\ Recurs(engine[i].work)
    /\ Late(i)

\* A job the engine sleeps past comes back on time although the timer never does
\* anything about it (cronmanager.go:251-264).
LateComesBack == \A i \in Ids : Overdue(i) ~> ~Overdue(i)

\* metrics.go:7 "Total = Successful + Submitted + Failed", where it can be
\* expected: after a pass during which nothing else happened, which found every
\* job in the engine and a condition for it or its CronHPA gone.
TotalAddsUp ==
    [][\A p \in Passes : End(p) /\ p \in steady =>
          gauge'["total"] =
              gauge'["successful"] + gauge'["submitted"] + gauge'["failed"]]_allVars
===============================================================================
