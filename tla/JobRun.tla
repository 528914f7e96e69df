-------------------------------- MODULE JobRun --------------------------------
(***************************************************************************)
(* Runs of jobs (pkg/controller/cronjob.go, CronJobHPA.Run): retries with  *)
(* a pause and a time limit around ScaleHPA, which widens the bounds of a  *)
(* HorizontalPodAutoscaler and then scales its target, or ScalePlainRef,   *)
(* which scales the target itself.  Runs, also of one job, work on one HPA *)
(* and one target side by side, beside users and the autoscaler.           *)
(*                                                                         *)
(* Data.  The HPA is its bounds and the replicas its status last reported; *)
(* the target is a size.  Resource versions become flags: a copy is stale  *)
(* when its object has been written since it was read.  HPAs are read      *)
(* through the manager's cache, scales from the API server.  Any call may  *)
(* fail, and a write may have taken effect all the same.  The lookup of    *)
(* the target's resource is part of reading its scale.                     *)
(*                                                                         *)
(* Time is kept per run, as the age it has reached, for no clock is shared.*)
(* A pause adds updateRetryInterval to it, calls add what they like; ages  *)
(* beyond the limit are not told apart.                                    *)
(* Bound: users and the autoscaler want no more than MaxSize replicas.     *)
(***************************************************************************)
EXTENDS Naturals

CONSTANTS Jobs,
          Size,      \* the DesiredSize of each
          Through,   \* the jobs whose target is the HPA, not what the HPA scales
          Runs,      \* goroutines of the engine, one for each activation of a job
          Nobody,
          MaxSize,
          maxRetryTimeout, updateRetryInterval

ASSUME RunAssumption ==
    /\ Size \in [Jobs -> Nat]
    /\ Through \subseteq Jobs
    /\ Nobody \notin Runs
    /\ MaxSize \in Nat \ {0}
    /\ maxRetryTimeout \in Nat
    /\ updateRetryInterval \in Nat \ {0}

Limit == maxRetryTimeout + 1

HPAs == [min : Nat, max : Nat, current : Nat]

NoHPA == [min |-> 0, max |-> 0, current |-> 0]

\* Within an attempt, a run is about to make one of these calls.
Calling == {"get_hpa", "get_scale", "put_hpa", "put_scale"}

Outcomes == {"scaled", "skipped", "off", "failed"}

VARIABLES
    hpa,     \* the HPA in the API server
    hcache,  \* the copy in the manager's cache
    hold,    \* whether that copy is out of date
    scale,   \* spec.replicas of the target
    run,     \* the runs
    floor    \* history: the run that last wrote the bounds, or Nobody

vars == <<hpa, hcache, hold, scale, run, floor>>

\* hpa is the copy of the HPA that a run works on.
Records ==
    [at : {"idle", "check"} \cup Calling \cup Outcomes,
     job : Jobs, age : 0 .. Limit, times : Nat,
     hpa : HPAs, hstale : BOOLEAN, sstale : BOOLEAN]

HoldsHPA(r) == run[r].at \in {"get_scale", "put_hpa"} /\ run[r].job \in Through

\* The types; and a copy not marked stale is a copy.
TypeOK ==
    /\ hpa \in HPAs /\ hcache \in HPAs
    /\ hold \in BOOLEAN
    /\ scale \in Nat
    /\ run \in [Runs -> Records]
    /\ floor \in Runs \cup {Nobody}
    /\ ~hold => hcache = hpa
    /\ \A r \in Runs : HoldsHPA(r) /\ ~run[r].hstale => run[r].hpa = hpa

Wants(r) == Size[run[r].job]

\* What the API server accepts of an HPA.
Valid(h) == 1 <= h.min /\ h.min <= h.max

\* A run that holds no copy.
Bare(at, job, age, times) ==
    [at |-> at, job |-> job, age |-> age, times |-> times,
     hpa |-> NoHPA, hstale |-> FALSE, sstale |-> FALSE]

Init ==
    /\ hpa \in [min : 1 .. MaxSize, max : 1 .. MaxSize, current : 1 .. MaxSize]
    /\ Valid(hpa)
    /\ hcache = hpa
    /\ hold = FALSE
    /\ scale = hpa.current
    /\ \E job \in [Runs -> Jobs] : run = [r \in Runs |-> Bare("idle", job[r], 0, 0)]
    /\ floor = Nobody

-------------------------------------------------------------------------------
\* ScaleHPA's arithmetic.

\* Mutant: the minimum is left to the autoscaler.
WidenedAtMost(h, s) ==
    [h EXCEPT !.max = IF s > @ THEN s ELSE @, !.min = IF s < @ THEN s ELSE @]

\* The HPA as ScaleHPA changes it for size s, one condition after the other.
Widened(h, s) ==
    LET least  == IF s < h.min THEN s ELSE h.min
        lowest == IF h.current = least /\ s < h.current THEN s ELSE least
    IN  [h EXCEPT !.max = IF s > @ THEN s ELSE @,
                  !.min = IF h.current < s THEN s ELSE lowest]

\* updateHPA; the third condition reads the minimum the second one leaves.
NeedsUpdate(h, s) ==
    \/ s > h.max
    \/ s < h.min
    \/ h.current = h.min /\ s < h.current
    \/ h.current < s

Enough(h, s) == h.current >= s

-------------------------------------------------------------------------------
\* What a write does to the copies others hold; f is what becomes of the runs.

HPAWritten(f, h) ==
    /\ hpa' = h
    /\ hold' = (hold \/ h # hpa)
    /\ run' = [q \in Runs |->
                  [f[q] EXCEPT !.hstale = @ \/ (h # hpa /\ f[q].at \in {"get_scale", "put_hpa"})]]

ScaleWritten(f, s) ==
    /\ scale' = s
    /\ run' = [q \in Runs |->
                  [f[q] EXCEPT !.sstale = @ \/ (s # scale /\ f[q].at \in {"put_hpa", "put_scale"})]]

-------------------------------------------------------------------------------
\* Run.

Goto(r, l) == [run EXCEPT ![r].at = l]

End(r, outcome) == [run EXCEPT ![r] = Bare(outcome, run[r].job, 0, 0)]

Older(age, time) == IF age + time > Limit THEN Limit ELSE age + time

RetriedAfter(r, pause) ==
    [run EXCEPT ![r] = Bare("check", run[r].job, Older(run[r].age, pause), run[r].times + 1)]

Retried(r) == RetriedAfter(r, updateRetryInterval)

\* The engine launches the job; on an excluded day there is nothing to do.
Launch(r) ==
    /\ run[r].at = "idle"
    /\ run' \in {Goto(r, "check"), End(r, "off")}
    /\ UNCHANGED <<hpa, hcache, hold, scale, floor>>

\* The head of the loop.
Check(r) ==
    /\ run[r].at = "check"
    /\ run' = IF run[r].age > maxRetryTimeout
              THEN End(r, "failed")
              ELSE Goto(r, IF run[r].job \in Through THEN "get_hpa" ELSE "get_scale")
    /\ UNCHANGED <<hpa, hcache, hold, scale, floor>>

\* Mutant: the next attempt follows at once.
CallFailsHotly(r) ==
    /\ run[r].at \in Calling
    /\ run[r].times <= Limit
    /\ run' = RetriedAfter(r, 0)
    /\ UNCHANGED <<hpa, hcache, hold, scale, floor>>

\* A call fails, for one reason or another: the object is not found, the copy to
\* write is stale, the HPA to write is not valid, the server does not answer.
CallFails(r) ==
    /\ run[r].at \in Calling
    /\ run' = Retried(r)
    /\ UNCHANGED <<hpa, hcache, hold, scale, floor>>

\* A call takes its time.
Tick(r) ==
    /\ run[r].at \in Calling
    /\ run[r].age < Limit
    /\ run' = [run EXCEPT ![r].age = @ + 1]
    /\ UNCHANGED <<hpa, hcache, hold, scale, floor>>

-------------------------------------------------------------------------------
\* ScaleHPA and ScalePlainRef.

\* Mutant: the copy is taken without its version.
GetHPAVersionless(r) ==
    /\ run[r].at = "get_hpa"
    /\ run' = [run EXCEPT ![r].at = "get_scale", ![r].hpa = hcache]
    /\ UNCHANGED <<hpa, hcache, hold, scale, floor>>

GetHPA(r) ==
    /\ run[r].at = "get_hpa"
    /\ run' = [run EXCEPT ![r].at = "get_scale", ![r].hpa = hcache, ![r].hstale = hold]
    /\ UNCHANGED <<hpa, hcache, hold, scale, floor>>

\* The scale is read; then the bounds are written, if they have to be, before
\* the scale is, if it has to be (and then the bounds have to).
GetScale(r) ==
    /\ run[r].at = "get_scale"
    /\ run' = IF run[r].job \notin Through THEN Goto(r, "put_scale")
              ELSE IF NeedsUpdate(run[r].hpa, Wants(r)) THEN Goto(r, "put_hpa")
              ELSE End(r, "skipped")
    /\ UNCHANGED <<hpa, hcache, hold, scale, floor>>

\* What follows once the bounds are written.
Continued(r, h) ==
    IF Enough(h, Wants(r)) THEN End(r, "skipped")
    ELSE [run EXCEPT ![r].at = "put_scale", ![r].hpa = NoHPA, ![r].hstale = FALSE]

\* Mutant: the HPA is written whatever version the server has.
PutHPAUnchecked(r) ==
    /\ run[r].at = "put_hpa"
    /\ LET h == Widened(run[r].hpa, Wants(r))
       IN  /\ Valid(h)
           /\ \E f \in {Continued(r, h), Retried(r)} :
                 HPAWritten(f, [h EXCEPT !.current = hpa.current])
    /\ floor' = r
    /\ UNCHANGED <<hcache, scale>>

\* The HPA is written; if the answer is lost the run tries again.
PutHPA(r) ==
    /\ run[r].at = "put_hpa"
    /\ ~run[r].hstale
    /\ LET h == Widened(run[r].hpa, Wants(r))
       IN  /\ Valid(h)
           /\ \E f \in {Continued(r, h), Retried(r)} : HPAWritten(f, h)
    /\ floor' = r
    /\ UNCHANGED <<hcache, scale>>

PutScale(r) ==
    /\ run[r].at = "put_scale"
    /\ ~run[r].sstale
    /\ \E f \in {End(r, "scaled"), Retried(r)} : ScaleWritten(f, Wants(r))
    /\ UNCHANGED <<hpa, hcache, hold, floor>>

-------------------------------------------------------------------------------
\* The environment: users, the autoscaler and the cache.

UserBounds(min, max) ==
    /\ <<min, max>> # <<hpa.min, hpa.max>>
    /\ HPAWritten(run, [hpa EXCEPT !.min = min, !.max = max])
    /\ floor' = Nobody
    /\ UNCHANGED <<hcache, scale>>

\* The autoscaler chooses any size within the bounds ...
Autoscale(s) ==
    /\ s # scale
    /\ hpa.min <= s /\ s <= hpa.max
    /\ ScaleWritten(run, s)
    /\ UNCHANGED <<hpa, hcache, hold, floor>>

\* ... and reports the size of the target some time later.
Report ==
    /\ hpa.current # scale
    /\ HPAWritten(run, [hpa EXCEPT !.current = scale])
    /\ UNCHANGED <<hcache, scale, floor>>

Sync ==
    /\ hold
    /\ hcache' = hpa
    /\ hold' = FALSE
    /\ UNCHANGED <<hpa, scale, run, floor>>

-------------------------------------------------------------------------------
Step(r) ==
    \/ Launch(r)
    \/ Check(r)
    \/ CallFails(r)
    \/ Tick(r)
    \/ GetHPA(r)
    \/ GetScale(r)
    \/ PutHPA(r)
    \/ PutScale(r)

Environment ==
    \/ \E min, max \in 1 .. MaxSize : min <= max /\ UserBounds(min, max)
    \/ \E s \in 1 .. MaxSize : Autoscale(s)
    \/ Report
    \/ Sync

Next ==
    \/ \E r \in Runs : Step(r)
    \/ Environment

Spec == Init /\ [][Next]_vars

-------------------------------------------------------------------------------
\* Properties.

\* Attempts are a pause apart and none begins after the limit: a run makes no
\* more than maxRetryTimeout \div updateRetryInterval retries, however short or
\* long its calls are, and so ends (cronjob.go:105-129).
AttemptsPaced ==
    \A r \in Runs :
        run[r].at \in Calling => run[r].times * updateRetryInterval <= maxRetryTimeout

\* When a run scales the target of an HPA, and from then on, the bounds it wrote
\* admit its size and nothing less, until somebody writes them again: the
\* autoscaler has no reason to take the replicas back (cronjob.go:178-217).
FloorHolds ==
    \A r \in Runs :
        floor = r /\ run[r].at \in {"put_scale", "scaled"}
            => hpa.min = Wants(r) /\ Wants(r) <= hpa.max

\* Bounds change on top of the bounds the API server has: a run never undoes
\* what a user or another run has written since it read the HPA (cronjob.go:201-206).
BoundsFollow ==
    [][hpa'.min # hpa.min \/ hpa'.max # hpa.max =>
          \/ floor' = Nobody
          \/ \E r \in Runs : floor' = r /\ hpa' = Widened(hpa, Wants(r))]_vars
===============================================================================
