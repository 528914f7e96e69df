# A verification of kubernetes-cronhpa-controller in TLA+

The controller watches `CronHorizontalPodAutoscaler` objects (CronHPAs). Each
lists jobs, a job says "at this cron schedule scale that target to this size";
the controller keeps the jobs in an in-process cron engine, runs them, and
writes their results into the object's status. This directory models its
scheduling core, from cron specifications and the timer loop up to the API object,
the watchdog that looks after it, and the runs that scale, checks them with TLC
and proves their main safety properties with TLAPS.

Paths are relative to the repository; `controller.go` is
`pkg/controller/cronhorizontalpodautoscaler_controller.go`, `cron.go` is
`vendor/github.com/ringtail/go-cron/cron.go` (`spec.go` and `parser.go` are beside
it), `types.go` is
`pkg/apis/autoscaling/v1beta1/cronhorizontalpodautoscaler_types.go`.

## 1. The system

| Component | State | Operations | Talks to |
|---|---|---|---|
| Cron engine, `cron.go` | entries by id, sorted list, timer, `running` | Start, Stop, AddJob, RemoveJob, Entries, the `run` loop | its callers over four unbuffered channels; launches a goroutine per activation |
| Schedules, go-cron `parser.go`, `spec.go`, `constantdelay.go` | none | Parse, Next | called by the engine and by IsTodayOff |
| Cron executor, `cronexecutor.go` | none of its own | AddJob, RemoveJob, Update, FindJob | the engine |
| Cron manager, `cronmanager.go` | `jobQueue` (a sync.Map from id to job) | createOrUpdate, delete, GC, gcLoop | executor; reads CronHPAs from the client's cache |
| Result handler, `cronmanager.go` | none | JobResultHandler, updateCronHPAStatusWithRetry | reads the cache, patches the API object |
| Reconciler, `controller.go` | none that survives a call | Reconcile | manager; reads the cache, updates the API object |
| Job run, `cronjob.go` | none | Run, ScaleHPA, ScalePlainRef | HPA objects and scale subresources |
| Exclude dates, `cronjob.go` | none | IsTodayOff | Parse, Next |
| Metrics, `metrics.go`, GC | five gauges | reset and counted in GC | Prometheus |
| Web server, `debugserver.go` | none | two handlers | engine's Entries |
| Scale client and kind resolver, `pkg/lib` | a discovery cache | Get, Update, ScaleForResource | API server |
| API object, `types.go` | spec and status | written by users, reconciler and handler | |
| Process, `main.go` | | start; leader election off by default | |

How they interact. One reconcile worker takes keys from a work queue and runs
Reconcile to its end. Garbage collection (GC) runs on a ten minute ticker, and in
a goroutine of its own for every reconcile that finds its object gone, so that any
number of passes may overlap with each other and with the worker. Each
activation of a job runs in a goroutine that ends in the result handler. The web
server calls Entries from yet another. Queue, engine and status are three
records of the same jobs; no lock or transaction spans two of them. Only the
status survives a crash: the identifiers in it are all that ties the object to
its jobs.

What is hard, and what makes each part correct:

- *Engine*: several goroutines meet the loop on channels, one of which carries
  both requests and answers; `running` and, before the start, the map are
  unsynchronised; the timer must be re-armed after every change. Correct when
  there is one loop, every call returns, no activation is launched twice, none
  is slept past, and seen from outside it is a table that changes in one step.
- *Manager*: two tables changed in separate steps, passes that look at one and
  then the other and act on what they saw. Correct when a tracked job of a live
  CronHPA is scheduled, passes take nothing from live CronHPAs, and collect what
  belongs to dead ones.
- *Reconciler and handler*: a read-modify-write of the whole object by the worker
  against versionless patches of the whole condition list by handlers and edits by
  users; conflicts and failures are logged only; crashes. Correct when, once at
  rest, the engine runs the spec and nothing else, the status describes it, no
  user's edit is lost, run-once jobs run once, and rest is reached.
- *Job run*: two dependent writes to objects that users, the autoscaler and other
  runs write too, decided by a copy from a cache; a time limit checked between
  attempts only. Correct when retries end, no other's write is undone, and what
  is scaled is not taken back at once.
- *Schedules*: a nest of five loops that truncates once, wraps around to its
  head, and gives up after some years, over units of different lengths. Correct
  when it finds the first activation there is, and always ends.
- *Exclude dates*: lists of such schedules compared with the present by printing
  both. Correct when a day that is named is off, and no other.
- *Watchdog and metrics*: passes that run and enter late jobs by answers that grow
  old, beside the engine and each other, and count on gauges they share. Correct
  when late jobs come back on time, nothing is run twice, and the sums are right.

`PROJECT.json` lists 40 hazards with their lines and the properties that cover them.

## 2. The modules

    JobTable            what an engine promises: a table of jobs
      ^ implemented by
    CronEngine          the loop of cron.go, its channels and clients
    CronManager         queue + engine table + concurrent passes   (uses JobTable's operations)
      ^ composed into (INSTANCE)
    CronHPA             API object, informer, worker, manager, runs, handler, crash
    Watchdog            CronManager + clock, activation times, gauges (extends it)
    JobRun              what a run does to the HPA and its target
    Parser              what a cron specification says
      ^ extended by
    Schedule            the search for the next activation
      ^ extended by
    ExcludeDates        which days are off

`MC<Module>` gives each its instances for TLC, `<Module>Proofs` its theorems. CronHPA has two
more modules of them: CronHPAScheduled, about the jobs, and CronHPACalm, about the calm environment.

**JobTable** is the abstract specification: `table` from identifiers to jobs, changed
by Schedule and Unschedule, and Launch, which never repeats an activation.

**CronEngine** models `cron.go` line by line of its `select`: `entries`, `sorted`
(`sortedEntries`), `timer`, the local `now`, `running`, where the loop is (`epc`)
and where every client is inside a call (`call`). An operation of a client is two
actions, `Call...` (it blocks on the channel) and the loop's `Recv...`, where they
meet. `Cross` is the meeting of two clients of Entries with each other on the
shared channel. `WriteEarly` is AddJob's write of the map after it read `running`
as false, perhaps with a loop started since. `Arm` is the head of the loop. A
schedule is a function `NextTime` that keeps the contract of `Schedule.Next`.

**CronManager** models createOrUpdate, Update, delete and GC with one action per
operation on the sync.Map, per call of the engine and per read of a CronHPA: the
worker `R` and each pass in `Passes` have a `pc` and a job. The engine is the
table of JobTable, changed in one step: that is what CronEngine implements.
`SpuriousMiss` lets FindJob miss a job it should see, as `Cross` makes possible.
`found` may be "late" for any scheduled job, for its time is not modelled.

**CronHPA** models one object: `obj` in the API server, `cache` in the informer,
`cstale` and `rec.stale` instead of resource versions, `due` for the work queue,
`rec` for the Reconcile under way (the instance, the identifiers still to
delete, the jobs still to handle, leftConditions, noNeedUpdateStatus), `run` for the
run of each job and the patch it leads to. It instantiates CronManager and takes
its steps: `JobCreate`, `Submit`, `Refuse`, `Compare` and `ManagerStep` are the
manager's createOrUpdate with what Reconcile does at each return. `HandleResult`
reads the cache, `Patch` writes the conditions computed from it, with whatever
happens in between. `Crash` loses all but the object.

**JobRun** is what CronHPA leaves out of a run: `run[r]` is a goroutine inside
Run, at the head of the retry loop ("check") or about to make a call. `Check` is the
time limit and the choice between ScaleHPA and ScalePlainRef, `GetHPA`, `GetScale`,
`PutHPA`, `PutScale` the calls in their order, `CallFails` any error of any of them,
the pause and the count. `Widened` is the arithmetic on the bounds. The HPA comes
from a cache (`hcache`, `hold`), the scale from the server; `hstale` and `sstale` are
the versions of the copies. A write may take effect although its answer is lost.
`floor`, the last writer of the bounds, is history.

**Watchdog** extends CronManager: each step of a pass or of the worker is a step of
that module and what it does to the clock's side of the state. `next` is the
`Next` of each entry of the engine, computed anew by AddJob (`Entered`); `Late` is the
test of FindJob against `maxOutOfDateTimeout`; `gauge` are the five gauges, `cond` the
state in a job's condition. `Launch` is the engine's timer case; since a removal
may postpone it by any time, it happens at any time or not at all. `seen`, `ran` and
`steady` are history. Updates of jobs and restarts are left to `manager`; setting the
gauges is part of the pass's step before it.

**Parser** takes a specification apart as Parse does: which ranges are refused, which
values of a field they name, whether there is a star, what the descriptors stand
for, and that `@date` drops its year. Splitting the text and reading numbers and names
are abstracted by the shape of a specification. **Schedule** is
SpecSchedule.Next with one action per turn of a loop: `Wrap` is the label,
`Keep` leaves a loop whose condition holds no more, `Skip` is a loop's body with
the one truncation (`added`) and the way back. The calendar is a constant: of each second, the
bounds and the number of each unit it is in. **ExcludeDates** adds the loop of
IsTodayOff, which calls Parse and Next and compares by `Format`.

Abstractions to know: jobs and conditions are sets, so their order is any;
scaleTargetRef and excludeDates are one value `params` and `RefOf` says which
values have one target; what a run does to its target is left out; the job
factory accepts `ValidParams` and rejects the rest (it panics on an apiVersion without
a group, which is not modelled); a condition's message and time are left out, but
that an update may change only the time is in `Update`; a job has one run at a time.

## 3. The runs

All passing runs are exhaustive. "States" are distinct.

| Run | Instance | Shows |
|---|---|---|
| `engine_safety` | 2 ids, 2 plans, clock to 4, loop arbitrarily late, one client adding (also before the start) and removing, one listing, removing, stopping; 673 000 states | TypeOK; OneLoop; NoIdleWake; NeverOversleeps; NoRelaunch; ImplementsTable |
| `engine_live` | 2 ids, clock to 3, loop late by at most 1, a client that adds, two that list; 70 000 states | Handoff, SnapshotFaithful, SleepsUntilDue; CallsReturn, ActivationsHappen under fairness |
| `manager` | 1 id, 3 plans, 2 passes, lists that miss jobs, restarts, a second CronHPA, without jobs, that comes and goes; 673 000 states | TypeOK; TrackedIsScheduled; CollectsOnlyAbandoned; TrackedGetsScheduled, AbandonedIsDropped under fairness |
| `hpa_race` | 2 edits, 2 fires, 1 crash in every order, two targets; 2.6 million states | TypeOK; SpecScheduled; StatusMatchesSpec; NoLostEdit |
| `hpa_collect` | a deletion, re-creation with other jobs, two jobs of one name, a failing API call, passes of the ticker and of the deletion; 1.3 million states | SpecScheduled; ImplementsManager |
| `hpa_calm` | an edit, 2 fires, a crash, a resync, a deletion, each when the controller rests; exclude dates, a plan and a target that are refused, a run-once job; 417 000 states | NoOrphan; NamedIsScheduled; RecreatedOnGlobalChange; RunsOnce |
| `hpa_live` | an edit, a fire, a lost result and a crash in every order, two jobs; 28 000 states | EditsTakeEffect under fairness |
| `hpa_expired` | an edit during a reconcile | *violation* of ExpiredDeleted |
| `jobrun` | 2 runs of any of 3 jobs (two sizes through the HPA, one on its target), sizes to 2, one retry; 1.8 million states, runs interchangeable | TypeOK; AttemptsPaced; FloorHolds; BoundsFollow |
| `watchdog` | 1 id, a plan that recurs and one that never comes, 2 passes, lists that miss the job, clock to 3, late after 1; 804 000 states | WTypeOK; ScheduledIsAhead; TotalAddsUp; LateComesBack under fairness |
| `exclude` | some 300 schedules of every form and lists of two, asked at each second of two years; a year of 40 or 48 seconds, a leap year, 2 months, 3 weekdays, years searched 2; 363 000 states | TypeOK; FindsNext; NamedDayIsOff; OffOnlyInNamedHour; SearchEnds under fairness |
| `exclude_days` | one date, "the 2nd of the 2nd month" | *violation* of OffOnlyThatDay |

Why the bounds are enough. The races are between one worker, one or two passes,
one or two callers of Entries, one handler per job and one user: the runs have
that many of each, and the deviations found need no more than half of what
the budgets allow (5 to 18 steps). Two identifiers are enough for the engine, whose
entries meet only in the choice of the earliest. In CronManager jobs of
different identifiers never meet: every step reads and writes one key, so one
identifier, with all plans that matter, is general. In CronHPA `Budget` bounds what users,
schedules and failures do; identifiers are given out again when nothing refers to
them, and TLC would stop at the `CHOOSE` of `NewId` if a run needed more.
Deadlock is checked where the environment never runs out, and off where it may
(the clock ends, the engine is stopped, the budget is spent).

In JobRun two sizes and two runs meet every live condition of ScaleHPA and
every order of two writers; users write any bounds at any time, so further runs
would add little, and the theorems are for any number.

Watchdog keeps one identifier for CronManager's reason; three instants hold an
activation, the moment it is late and the next activation, and two passes may be on
either side of each. Each job adds to the gauges by itself. In `exclude` every unit has at least two values, the
last day of a month is one that a shorter month lacks, and a whole leap cycle lies
within the years searched, so each loop can match, move on, wrap around and run
into the limit; `NextIsLeast` holds in any calendar.

Fairness. Go schedules every goroutine, so the worker, the handlers, the passes
and the start are weakly fair. A channel's waiting senders are served in order and
`select` picks among the ready cases at random, so receiving from a client and the
timer case are strongly fair. The ticker starts passes again and again; a read
of the cache that fails does not fail for ever (strong fairness of the other two
outcomes). The watchdog's passes have the same fairness, its engine's timer has none. A
goroutine inside IsTodayOff goes on. Users, schedules, crashes and API errors owe nothing.

### What the violations show

- `hpa_expired`. `controller.go:201`: the identifiers of the jobs created by a
  reconcile are in the status it writes at its end. When that Update conflicts
  with an edit it is only logged; the next reconcile has no identifier to delete
  the first jobs by, and they go on scaling beside their successors.
- `exclude_days`. `cronjob.go:320`: whether a date is today is decided by
  `Format("11-15-1990")` of now and of the date's next activation. That is no layout
  of a day: Go finds month, month, hour, month and a text in it. README.md's own
  example, `* * * 15 11 *`, holds jobs off in the first hour of every other day of
  November, when its next activation is midnight on some November 15th.

Further deviations were met while modelling and are part of the behaviours above,
without a run of their own.

*Engine.* A removal goes back to the loop's head with the `now` of the last wake or
add (`cron.go:246`), so the timer is set to `Next.Sub(now)`, too long by the time
slept since: with removals SleepsUntilDue fails in five steps, and a job deleted at
noon in an engine idle since eight postpones what was due at one to five, or
until a pass finds it late (LateComesBack). Two callers of Entries may take each other's request
for the answer (`Cross`) and get an empty list; `manager` shows that GC
survives it. AddJob racing the start (`WriteEarly`) leaves an entry with the zero
time, which never fires.

*Manager.* A pass that has found a job missing and its CronHPA alive calls AddJob
without looking again (`cronmanager.go:263`): if the job was deleted in between, the
engine keeps it and the queue does not, GC ranges over the queue, and the job runs
until the process ends. A schedule with no activation ahead has the zero time,
which is always late (`cronexecutor.go:53`), so every pass runs its job. A run-once job
run by a pass is run again by the engine, for the pass reports to nobody
(`cronmanager.go:256`). An activation that comes due just when a pass enters the job
afresh is dropped by the engine, the pass having run the one before it. A job
not found is counted twice, as failed and as submitted (`cronmanager.go:269`), so
TotalAddsUp is about passes that find all jobs and that nothing disturbs.

*Exclude dates.* In the last second of an hour the next activation is in another
hour, so no date holds a job off. A date with an hour (`0 0 0 15 11 *`) is in
effect during that hour only. One that never comes has the zero time, which prints as
January at midnight. `@date` drops its year, so the "Run once" of README.md:250 is
once a year.

*Results and runs.* When the patch with the final state of a run-once job is lost
(`cronmanager.go:168`, three attempts without a pause) or the process crashes before
it, the job runs again at its next activation, so RunsOnce is stated where no patch
is lost. A run that has read its scale before a larger one was written may, when the
write changes nothing, scale back down below the minimum of the HPA, until the
autoscaler mends it: FloorHolds is about the bounds for that reason. The third
condition of ScaleHPA is dead, and a size of zero always fails on an HPA
that may not go to zero. Whether there is anything to scale is
decided by the status of the HPA in the cache (`cronjob.go:208`), so a run that has read
a scale below its size may skip and report success ("1 >= 2"). A result patched while parameters change restores a
condition whose job has the old exclude dates, and Equals does not compare them;
a job of a re-created CronHPA can be collected by a pass that began when it was
gone. RecreatedOnGlobalChange and NamedIsScheduled are therefore checked in the calm
environment, where parameters may share a target and objects come and go; they are
proved there, and for every environment where they do not (section 4). NoOrphan and
ExpiredDeleted hold in the calm environment only: `hpa_expired` is what happens in another.

## 4. The proofs

For all values of the constants that satisfy the ASSUMEs of the modules (the
contract of `Schedule.Next`; each id owned by one CronHPA; the worker is not a
pass; the fields of a job; no job is the "no job" of an idle thread; a calendar of
nested units that reaches past every search and every delay; activation times later
than the time they are computed from). TLC evaluates the ASSUMEs in every run.

*CronEngineProofs.* IInv adds to the type and NoRelaunch what makes them
inductive: the sorted list names entries of the map, `now` is behind the clock and
the armed timer, and what was launched lies in the past of `now`. NoRelaunch alone
is not inductive, for a new entry's activation is later than `now`, which says
nothing of what was launched without LaunchedPast. From IInv: `TypeCorrect`,
`LaunchedOnce` (NoRelaunch), `TimerCorrect` (NoIdleWake and NeverOversleeps), and
`Implements`: every step is a step of JobTable or a stutter. `OneLoopHolds` and
`HandoffHolds` have invariants of their own about the control state. `Sleeps` and
`Faithful` are SleepsUntilDue and SnapshotFaithful, each with the hypothesis
it needs. Without removals `now` is that of the last wake or add, and the loop
sleeps until what is due then (SleepInv); a removal re-arms from an old `now`. Without
a write before the start the sorted list, when it is answered from, has all entries
of the map; such a write is in the map only. `engine_live` has neither, for the same reasons.

*CronManagerProofs.* TrackedIsScheduled is not inductive: a pass may be about to
remove the job. IInv adds that a pass on its way to a removal works on a job whose
CronHPA is gone for good (Doomed) and that a job about to be stored is
scheduled (Stored). From it `Tracked` and `CollectsOnly`, for any number of passes and
with lists that miss jobs.

*CronHPAProofs.* `Copies`: the cache is the server's object unless `cstale`, the
worker's instance has its spec unless `rec.stale`; the chain is what makes the
unconditional write of Update safe. From it `EditsKept` (NoLostEdit).
`ManagerRefined` (ImplementsManager): every step of the composed system is one of
CronManager or leaves it alone. There the CronHPA may come back under its name
(Returning), so that of CronManager's results it inherits those that are not about
CronHPAs gone for good; for the others see SpecScheduled and NamedIsScheduled.

`Types` (CronHPA's TypeOK): every step types the rest of the state
(CTypes) with the shape Copies gives the object's copies and the types the manager
keeps. The latter are not proved again: CronManagerProofs is instantiated as `MP`,
and ManagerIsRefined makes every step here one of its steps.

`StatusDescribes` (StatusMatchesSpec) says nothing of a reconcile under
way; the invariant StatusInv does. Names are unique in every list of conditions there
is, the patches included (NamesInv). Each job of the spec that was read is still to
be handled, in a call of the manager, or has a condition (WorkInv). The instance is
what it should be if it is written, and what the server has if it is not; and a
stale one leaves the informer or the work queue a reason to come back (InstInv). Then
each way a reconcile may end leaves a status that describes the spec, or a reason for
another (RestInv). The hypothesis is that no Update fails but by a conflict
(`controller.go:203` queues nothing after any error); edits, deletions, fires, lost
patches, crashes and passes are as many as they like.

*CronHPAScheduled.* What could go wrong with SpecScheduled is that a job is deleted under
an identifier that another has, or taken for unchanged. OneJobPerId is the
invariant against it: an identifier stands for one job in the status and its
copies, in patches under way, in queue, engine, threads and runs. With it, what the worker
deletes is none of what it has scheduled (CallInv), and queue and engine hold the
same work but for the job the worker is at (TableInv). `Scheduled` follows, failing
updates included. `NamedScheduled` and `Recreated` (NamedIsScheduled,
RecreatedOnGlobalChange) add where the conditions left are (PlaceInv), and that
without passes the engine has nothing the queue has not (EngineInv). They do
not need the calm environment of `hpa_calm`, only that no Update fails but by a conflict.

These three have hypotheses, Circumstances, and the code needs each: TLC finds
SpecScheduled violated, with at most two edits, a fire and a crash or a deletion, when
any one is dropped.
- Names of jobs are distinct. Two of one name share the condition, and with it the identifier.
- A change of parameters changes the target. Equals compares targets only
  (`cronjob.go:79`); a patch from before an edit of the exclude dates brings back a condition and
  its identifier, and the job keeps the old dates.
- The factory accepts every target. Two jobs it has rejected have conditions with the
  empty identifier; when a patch brings both back under an accepted target, both
  are created under it, and the second is taken for the first unchanged.
- Either no pass is made, or the object stays and so do its parameters. A pass that found a
  job missing adds it over its successor (`cronmanager.go:263`), and one that began when the
  object was gone collects a job of its re-creation under an old identifier.

The instances of `hpa_race` and `hpa_live` meet Circumstances. That of `hpa_calm` does
not and is the subject of CronHPACalm; that of `hpa_collect` does not either, and its
cases (two jobs of one name, a re-creation during a pass) are only model-checked.

*CronHPACalm.* Its theorems are about an environment that waits for the
controller to rest, and the first part of the invariant is what that gives: everybody has a
turn (Turn), the informer, the worker, one run or one pass, so that nothing is read that
has changed when it is used. On that rests that the status covers what the manager
tracks. Known says who keeps it so: the conditions of the worker's instance
cover all but what it is about to delete, the patch of a run covers what the object
covers, and a pass changes what is tracked only when there is no object
(CalmPass), and then removes all of it. NoIds keeps the empty identifier out of
queue and engine: the conditions that have it are those of a target the factory rejects,
and then all of them have it. `NothingOrphaned` (NoOrphan) follows, for any targets,
passes, deletions and re-creations. Its hypotheses, Quiet, are needed beside Calm: an Update
that fails loses the identifiers of the jobs it created, and two jobs of one name
share a condition, which names one of them.

RunsOnce is not inductive either: `ran` may be 1 while the job is scheduled, and it is the
result that takes it away. OnceInv says of a job that has run that it is done wherever
a condition names it (Done), that a reconcile will delete it, and that the manager tracks
none at rest. `RunsAtMostOnce` needs two hypotheses more: a result that is lost
leaves the job scheduled, and a pass of the ticker runs a late job itself.
The instance of `hpa_calm` meets all of these.

That the status covers what is tracked does not say that what is tracked is right.
WorksInv adds three things. Queue and engine hold the same work while the object is there, by the
lemmas of CronHPAScheduled, whose hypotheses the turns replace (TableInv). What is
tracked has the parameters of the status, or of the worker's instance but for what it will delete
(ParamsInv). And every job that a condition names and that can run is tracked,
but for the one the worker is at (TracksInv). When the object is gone nothing is
tracked but what passes have still to remove. So `CalmScheduled`, `CalmNamed` and
`CalmRecreated` are the three results of CronHPAScheduled without Circumstances, but for
the distinct names: parameters may share a target, targets may be refused, passes run and
objects come back. With NoOrphan's invariant they give `CalmExpired` (ExpiredDeleted), which is
what the loop over the conditions is for (`controller.go:107`) and fails in another environment (`hpa_expired`).

*JobRunProofs.* IInv adds to TypeOK (a copy not marked stale is the HPA),
AttemptsPaced and FloorHolds that the age of a run has counted its pauses (Paced),
without which nothing bounds the attempts when calls take no time, and that only
runs whose target is the HPA hold copies of it or are the last writer of its
bounds (Aims, FloorAims). From it `TypeCorrect`, `AttemptsBounded`, `FloorKept` and
`BoundsFollowed`, for any jobs, sizes, runs, limit and pause. `WidenedAdmits` and
`ThirdConditionIdle` are facts about the arithmetic.

*WatchdogProofs.* ScheduledIsAhead says nothing of a pass that has found a job late
and not run it, or has run it and not entered it. IInvW adds that what anyone has
run or found late lies in the past (Past) and that only a pass that waits for its
read owes a run (SeenLate). From it `Ahead` and `WatchdogTypes`, whose gauges need the
queue finite. `ManagersStep` makes CronManager's theorems hold here: `StillTracked`.
`AddsUp` (TotalAddsUp) needs to know what the gauges have counted in the middle of
a pass while nothing else happens: the queue but what is left to visit and the job at
hand (Tally). A step of anyone else ends that, so nothing is needed about others.

*ExcludeDatesProofs.* FindsNext is not inductive. The invariant says that all
activations are at or after `t` (none was passed), that each field before the
loop matches, and that each unit of `t` begins at `t` once something was added, or
matches: that is what truncating only once relies on. `NextIsLeast` then says
that what Next finds is the least activation, in any calendar that meets the
assumption; it is the contract that CronEngine and Watchdog assume of NextTime. The
assumption is not met where clocks change on midnight. `NamedDayApplied` adds that the
dates passed so far did not name the present day, and `OffIsNamed` (OffOnlyInNamedHour)
that a job is off only in a month and an hour some date is activated in, or in the first
of January by a date that never comes. `TypeCorrect`
needs that a parsed field keeps within its unit (`FieldWithinBounds`) and that every
delay and search ends within the calendar.

Only model-checked: all liveness (TLAPS has no rule for fairness here). SleepsUntilDue,
SnapshotFaithful and seven properties of CronHPA (StatusMatchesSpec, SpecScheduled,
NamedIsScheduled, RecreatedOnGlobalChange, NoOrphan, ExpiredDeleted, RunsOnce) are proved
under their hypotheses; where these fail, only the runs that check them there say anything.

## 5. Not modelled, and the plan

Not modelled: the scale client (one request per call), registration and deep
copies, the web server's pages, deployment files, and vendored libraries other
than go-cron, which appear as the environment. The scale kind resolver of
`pkg/lib/util.go` is not the one the controller uses.

Also not modelled: two replicas without leader election (the default): every
hazard would have twice the actors, and nothing says what should hold; text
(splitting specifications, reading numbers); clocks that change; the second HTTP
page; that the job factory panics on an apiVersion without a group
(`cronjob.go:277`), which ends the process.

Done in this order: JobTable, CronEngine, CronManager, CronHPA, JobRun, Parser,
Schedule, ExcludeDates, Watchdog, with their proofs, then CronHPAScheduled and
CronHPACalm. Nothing of the plan is left.
