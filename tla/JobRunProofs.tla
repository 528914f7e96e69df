----------------------------- MODULE JobRunProofs -----------------------------
(***************************************************************************)
(* Theorems about JobRun, for any jobs, runs, sizes, time limit and pause. *)
(*                                                                         *)
(* What a run may do with an HPA rests on its copy: while nothing marks it *)
(* stale it is the server's (TypeOK), and only jobs with an HPA for target *)
(* hold one.  What an attempt may cost rests on the age of a run, which    *)
(* has counted the pauses it has made (Paced).                             *)
(***************************************************************************)
EXTENDS JobRun, TLAPS

Paced(r) ==
    \/ run[r].age = Limit
    \/ run[r].times * updateRetryInterval <= run[r].age

Aims(r) == run[r].at \in {"get_hpa", "put_hpa"} => run[r].job \in Through

\* Only a run whose target is the HPA writes bounds.
FloorAims(r) == floor = r => run[r].job \in Through

IInv ==
    /\ TypeOK
    /\ AttemptsPaced
    /\ FloorHolds
    /\ \A r \in Runs : Paced(r) /\ Aims(r) /\ FloorAims(r)

-------------------------------------------------------------------------------
\* ScaleHPA's arithmetic.

LEMMA WidenedType ==
    ASSUME NEW h \in HPAs, NEW s \in Nat
    PROVE  /\ Widened(h, s) \in HPAs
           /\ Widened(h, s).current = h.current
           /\ h.current < s => Widened(h, s).min = s
           /\ s <= Widened(h, s).max
<1>1. PICK min, max, current \in Nat : h = [min |-> min, max |-> max, current |-> current]
      BY DEF HPAs
<1> DEFINE least  == IF s < min THEN s ELSE min
           lowest == IF current = least /\ s < current THEN s ELSE least
           newMin == IF current < s THEN s ELSE lowest
           newMax == IF s > max THEN s ELSE max
<1>2. Widened(h, s) = [min |-> newMin, max |-> newMax, current |-> current]
  <2>1. h.min = min /\ h.max = max /\ h.current = current
        BY <1>1
  <2>2. Widened(h, s) = [h EXCEPT !.max = newMax, !.min = newMin]
        BY <2>1 DEF Widened
  <2> HIDE DEF newMin, newMax
  <2> QED BY <1>1, <2>2
<1>3. newMin \in Nat /\ newMax \in Nat /\ s <= newMax
      BY <1>1
<1> QED BY <1>1, <1>2, <1>3 DEF HPAs

\* The bounds ScaleHPA writes admit the size, whatever they were, the maximum is
\* never lowered, and the result is one the API server accepts when the bounds
\* were and the size is not zero (cronjob.go:178-199).
THEOREM WidenedAdmits ==
    ASSUME NEW h \in HPAs, NEW s \in Nat
    PROVE  /\ Widened(h, s).min <= s /\ s <= Widened(h, s).max
           /\ h.max <= Widened(h, s).max
           /\ Valid(h) /\ s > 0 => Valid(Widened(h, s))
BY DEF Widened, HPAs, Valid

\* The third condition of ScaleHPA never changes anything the first two and the
\* fourth do not, and never asks for an update they do not (cronjob.go:190-194).
THEOREM ThirdConditionIdle ==
    ASSUME NEW h \in HPAs, NEW s \in Nat
    PROVE  /\ Widened(h, s) =
                [h EXCEPT !.max = IF s > @ THEN s ELSE @,
                          !.min = IF h.current < s THEN s ELSE IF s < @ THEN s ELSE @]
           /\ NeedsUpdate(h, s) <=> s > h.max \/ s < h.min \/ h.current < s
<1>1. LET least == IF s < h.min THEN s ELSE h.min
      IN  ~(h.current = least /\ s < h.current)
      BY DEF HPAs
<1>2. ~(h.current = h.min /\ s < h.current /\ ~(s < h.min))
      BY DEF HPAs
<1> QED BY <1>1, <1>2 DEF Widened, NeedsUpdate

-------------------------------------------------------------------------------
\* What the parts of the steps do to the runs.

LEMMA LimitType == Limit \in Nat \ {0}
BY RunAssumption DEF Limit

LEMMA BareType ==
    ASSUME NEW at \in {"idle", "check", "scaled", "skipped", "off", "failed"}, NEW job \in Jobs,
           NEW age \in 0 .. Limit, NEW times \in Nat
    PROVE  /\ Bare(at, job, age, times) \in Records
           /\ Bare(at, job, age, times).at = at
           /\ Bare(at, job, age, times).job = job
           /\ Bare(at, job, age, times).age = age
           /\ Bare(at, job, age, times).times = times
BY DEF Bare, Records, NoHPA, HPAs, Outcomes

LEMMA OlderType ==
    ASSUME NEW age \in 0 .. Limit, NEW time \in Nat
    PROVE  /\ Older(age, time) \in 0 .. Limit
           /\ Older(age, time) = Limit \/ Older(age, time) = age + time
BY LimitType DEF Older

LEMMA Counted ==
    ASSUME NEW n \in Nat, NEW d \in Nat
    PROVE  (n + 1) * d = n * d + d /\ n * d \in Nat
OBVIOUS

\* What a run may become in a step without breaking its part of the invariant.
Fine(x) ==
    /\ x \in Records
    /\ x.at \in Calling => x.times * updateRetryInterval <= maxRetryTimeout
    /\ x.age = Limit \/ x.times * updateRetryInterval <= x.age
    /\ x.at \in {"get_hpa", "put_hpa"} => x.job \in Through

LEMMA FineRuns ==
    ASSUME IInv
    PROVE  \A r \in Runs : Fine(run[r])
BY DEF IInv, TypeOK, AttemptsPaced, Paced, Aims, Fine

LEMMA EndFine ==
    ASSUME IInv, NEW r \in Runs, NEW outcome \in Outcomes
    PROVE  /\ End(r, outcome) = [run EXCEPT ![r] = Bare(outcome, run[r].job, 0, 0)]
           /\ Fine(Bare(outcome, run[r].job, 0, 0))
<1>1. run[r].job \in Jobs
      BY DEF IInv, TypeOK, Records
<1>2. 0 \in 0 .. Limit /\ 0 * updateRetryInterval = 0
      BY LimitType, RunAssumption
<1> DEFINE x == Bare(outcome, run[r].job, 0, 0)
<1>3. outcome \in {"scaled", "skipped", "off", "failed"}
      BY DEF Outcomes
<1>4. x \in Records /\ x.at = outcome /\ x.age = 0 /\ x.times = 0
      BY <1>1, <1>2, <1>3, BareType
<1>5. Fine(x)
  <2> HIDE DEF x
  <2> QED BY <1>2, <1>3, <1>4, RunAssumption DEF Fine, Calling
<1> QED BY <1>5 DEF End

LEMMA RetriedFine ==
    ASSUME IInv, NEW r \in Runs
    PROVE  \E x : /\ Retried(r) = [run EXCEPT ![r] = x]
                  /\ Fine(x) /\ x.at = "check" /\ x.job = run[r].job
<1> DEFINE d == updateRetryInterval
           age == Older(run[r].age, d)
           times == run[r].times + 1
           x == Bare("check", run[r].job, age, times)
<1>1. /\ run[r].job \in Jobs /\ run[r].age \in 0 .. Limit /\ run[r].times \in Nat
      /\ d \in Nat
      BY RunAssumption DEF IInv, TypeOK, Records
<1>2. /\ age \in 0 .. Limit
      /\ age = Limit \/ age = run[r].age + d
      BY <1>1, OlderType
<1>3. /\ x \in Records /\ x.at = "check" /\ x.job = run[r].job
      /\ x.age = age /\ x.times = times
  <2> HIDE DEF age, times
  <2>1. times \in Nat
        BY <1>1 DEF times
  <2> QED BY <1>1, <1>2, <2>1, BareType
<1>4. age = Limit \/ times * d <= age
  <2>1. run[r].age = Limit \/ run[r].times * d <= run[r].age
        BY DEF IInv, Paced
  <2>2. times * d = run[r].times * d + d /\ run[r].times * d \in Nat
        BY <1>1, Counted
  <2>3. CASE run[r].age = Limit
        BY <1>1, <2>3, LimitType, RunAssumption DEF Older
  <2>4. CASE run[r].times * d <= run[r].age
        BY <1>1, <1>2, <2>2, <2>4
  <2> QED BY <2>1, <2>3, <2>4
<1>5. Fine(x)
      BY <1>3, <1>4 DEF Fine, Calling
<1>6. Retried(r) = [run EXCEPT ![r] = x]
      BY DEF Retried, RetriedAfter
<1> HIDE DEF x
<1> QED BY <1>3, <1>5, <1>6

LEMMA ContinuedFine ==
    ASSUME IInv, NEW r \in Runs, NEW h \in HPAs, run[r].at = "put_hpa"
    PROVE  \E x : /\ Continued(r, h) = [run EXCEPT ![r] = x]
                  /\ Fine(x) /\ x.job = run[r].job
                  /\ \/ x.at = "skipped"
                     \/ x.at = "put_scale" /\ h.current < Wants(r)
<1>1. CASE Enough(h, Wants(r))
  <2> DEFINE x == Bare("skipped", run[r].job, 0, 0)
  <2>1. run[r].job \in Jobs /\ 0 \in 0 .. Limit
        BY LimitType DEF IInv, TypeOK, Records
  <2>2. x.at = "skipped" /\ x.job = run[r].job
        BY <2>1, BareType
  <2>3. "skipped" \in Outcomes
        BY DEF Outcomes
  <2>4. Continued(r, h) = [run EXCEPT ![r] = x] /\ Fine(x)
        BY <1>1, <2>3, EndFine DEF Continued
  <2> HIDE DEF x
  <2> QED BY <2>2, <2>4
<1>2. CASE ~Enough(h, Wants(r))
  <2> DEFINE x == [run[r] EXCEPT !.at = "put_scale", !.hpa = NoHPA, !.hstale = FALSE]
  <2>1. run \in [Runs -> Records]
        BY DEF IInv, TypeOK
  <2>2. Continued(r, h) = [run EXCEPT ![r] = x]
        BY <1>2, <2>1 DEF Continued, Records
  <2>3. Wants(r) \in Nat
        BY <2>1, RunAssumption DEF Wants, Records
  <2>4. h.current < Wants(r)
        BY <1>2, <2>3 DEF Enough, HPAs
  <2>5. x \in Records /\ x.at = "put_scale" /\ x.job = run[r].job
        /\ x.age = run[r].age /\ x.times = run[r].times
        BY <2>1 DEF Records, Calling, HPAs, NoHPA
  <2>6. Fine(x)
        BY <2>5, FineRuns DEF Fine, Calling
  <2> HIDE DEF x
  <2> QED BY <2>2, <2>4, <2>5, <2>6
<1> QED BY <1>1, <1>2

-------------------------------------------------------------------------------
\* The initial states.

LEMMA InitIInv == Init => IInv
<1> SUFFICES ASSUME Init PROVE IInv
    OBVIOUS
<1>1. PICK job \in [Runs -> Jobs] : run = [r \in Runs |-> Bare("idle", job[r], 0, 0)]
      BY DEF Init
<1>2. ASSUME NEW r \in Runs
      PROVE  /\ run[r] \in Records /\ run[r].at = "idle"
             /\ run[r].age = 0 /\ run[r].times = 0
  <2>1. run[r] = Bare("idle", job[r], 0, 0) /\ job[r] \in Jobs
        BY <1>1
  <2> QED BY <2>1, BareType, LimitType
<1>3. 1 .. MaxSize \subseteq Nat
      BY RunAssumption
<1>4. hpa \in HPAs
      BY <1>3 DEF Init, HPAs
<1>5. scale \in Nat
      BY <1>4 DEF Init, HPAs
<1>6. TypeOK
      BY <1>1, <1>2, <1>4, <1>5 DEF Init, TypeOK, HoldsHPA
<1>7. AttemptsPaced /\ FloorHolds
      BY <1>2, RunAssumption DEF Init, AttemptsPaced, FloorHolds, Calling
<1>8. \A r \in Runs : Paced(r) /\ Aims(r) /\ FloorAims(r)
      BY <1>2, RunAssumption DEF Init, Paced, Aims, FloorAims
<1> QED BY <1>6, <1>7, <1>8 DEF IInv

-------------------------------------------------------------------------------
\* The steps.

\* A step of one run that leaves the HPA and the copies of it alone.
LEMMA OwnStep ==
    ASSUME IInv, NEW r \in Runs, NEW x,
           run' = [run EXCEPT ![r] = x],
           Fine(x), x.job = run[r].job,
           x.at \in {"get_scale", "put_hpa"} /\ x.job \in Through /\ ~x.hstale => x.hpa = hpa,
           x.at \in {"put_scale", "scaled"} =>
              run[r].at \in {"put_scale", "scaled"} \/ x.job \notin Through,
           UNCHANGED <<hpa, hcache, hold, floor>>, scale' \in Nat
    PROVE  IInv'
<1>1. run \in [Runs -> Records]
      BY DEF IInv, TypeOK
<1>2. \A q \in Runs : run'[q] = IF q = r THEN x ELSE run[q]
      BY <1>1
<1>3. run' \in [Runs -> Records]
      BY <1>1 DEF Fine
<1>4. TypeOK'
      BY <1>2, <1>3 DEF IInv, TypeOK, HoldsHPA
<1>5. AttemptsPaced'
      BY <1>2 DEF IInv, AttemptsPaced, Fine
<1>6. FloorHolds'
  <2> SUFFICES ASSUME NEW q \in Runs, floor = q, run'[q].at \in {"put_scale", "scaled"}
               PROVE  hpa.min = Wants(q)' /\ Wants(q)' <= hpa.max
      BY DEF FloorHolds
  <2>1. run'[q].job = run[q].job
        BY <1>2
  <2>2. run[q].job \in Through
        BY DEF IInv, FloorAims
  <2>3. run[q].at \in {"put_scale", "scaled"}
        BY <1>2, <2>2
  <2> QED BY <2>1, <2>3 DEF IInv, FloorHolds, Wants
<1>7. ASSUME NEW q \in Runs
      PROVE  (Paced(q) /\ Aims(q) /\ FloorAims(q))'
      BY <1>2 DEF IInv, Paced, Aims, FloorAims, Fine
<1> QED BY <1>4, <1>5, <1>6, <1>7 DEF IInv

\* A write marks copies and changes nothing else of the runs.
LEMMA Marked ==
    ASSUME NEW x, Fine(x), NEW b \in BOOLEAN
    PROVE  /\ [x EXCEPT !.hstale = b].at = x.at /\ [x EXCEPT !.sstale = b].at = x.at
           /\ [x EXCEPT !.hstale = b].job = x.job /\ [x EXCEPT !.sstale = b].job = x.job
           /\ [x EXCEPT !.hstale = b].hpa = x.hpa /\ [x EXCEPT !.sstale = b].hpa = x.hpa
           /\ [x EXCEPT !.hstale = b].hstale = b /\ [x EXCEPT !.sstale = b].hstale = x.hstale
BY DEF Fine, Records

LEMMA HPAStep ==
    ASSUME IInv, NEW h \in HPAs, NEW f,
           HPAWritten(f, h), UNCHANGED <<hcache, scale>>,
           \A q \in Runs : Fine(f[q]) /\ f[q].job = run[q].job,
           \A q \in Runs : f[q].at \in {"get_scale", "put_hpa"} => f[q] = run[q],
           floor' \in Runs \cup {Nobody},
           \A q \in Runs :
              floor' = q =>
                 /\ f[q].job \in Through
                 /\ f[q].at \in {"put_scale", "scaled"}
                       => h.min = Wants(q) /\ Wants(q) <= h.max
    PROVE  IInv'
<1> DEFINE mark(q) == f[q].hstale \/ (h # hpa /\ f[q].at \in {"get_scale", "put_hpa"})
<1>1. \A q \in Runs : run'[q] = [f[q] EXCEPT !.hstale = mark(q)]
      BY DEF HPAWritten
<1>2. ASSUME NEW q \in Runs
      PROVE  /\ mark(q) \in BOOLEAN /\ Fine(run'[q])
             /\ run'[q].at = f[q].at /\ run'[q].job = run[q].job
             /\ run'[q].hpa = f[q].hpa /\ run'[q].hstale = mark(q)
  <2>1. mark(q) \in BOOLEAN
        BY DEF Fine, Records
  <2>2. Fine(f[q]) /\ f[q].job = run[q].job
        OBVIOUS
  <2> HIDE DEF mark
  <2>3. PICK b \in BOOLEAN : b = mark(q) /\ run'[q] = [f[q] EXCEPT !.hstale = b]
        BY <1>1, <2>1
  <2>4. PICK x : x = f[q] /\ Fine(x) /\ run'[q] = [x EXCEPT !.hstale = b]
        BY <2>2, <2>3
  <2>5. Fine(run'[q])
        BY <2>4 DEF Fine, Records
  <2>6. /\ run'[q].at = x.at /\ run'[q].job = x.job /\ run'[q].hpa = x.hpa
        /\ run'[q].hstale = b
        BY <2>4, Marked
  <2> QED BY <2>1, <2>2, <2>3, <2>4, <2>5, <2>6
<1>3. run' \in [Runs -> Records]
  <2>1. run' = [q \in Runs |-> run'[q]]
        BY DEF HPAWritten
  <2> QED BY <1>2, <2>1 DEF Fine
<1>4. ASSUME NEW q \in Runs, HoldsHPA(q)', ~run'[q].hstale
      PROVE  run'[q].hpa = hpa'
  <2>1. f[q].at \in {"get_scale", "put_hpa"} /\ f[q].job \in Through
        BY <1>2, <1>4 DEF HoldsHPA
  <2>2. f[q] = run[q] /\ HoldsHPA(q) /\ h = hpa /\ ~run[q].hstale
        BY <1>2, <1>4, <2>1 DEF HoldsHPA
  <2>3. run[q].hpa = hpa
        BY <2>2 DEF IInv, TypeOK
  <2> QED BY <1>2, <2>2, <2>3 DEF HPAWritten
<1>5. TypeOK'
      BY <1>3, <1>4 DEF IInv, TypeOK, HPAWritten
<1>6. AttemptsPaced'
      BY <1>2 DEF AttemptsPaced, Fine
<1>7. FloorHolds'
  <2> SUFFICES ASSUME NEW q \in Runs, floor' = q, run'[q].at \in {"put_scale", "scaled"}
               PROVE  hpa'.min = Wants(q)' /\ Wants(q)' <= hpa'.max
      BY DEF FloorHolds
  <2>1. Wants(q)' = Wants(q) /\ f[q].at \in {"put_scale", "scaled"}
        BY <1>2 DEF Wants
  <2>2. hpa' = h
        BY DEF HPAWritten
  <2> QED BY <2>1, <2>2
<1>8. ASSUME NEW q \in Runs
      PROVE  (Paced(q) /\ Aims(q) /\ FloorAims(q))'
  <2>1. (Paced(q) /\ Aims(q))'
        BY <1>2 DEF Paced, Aims, Fine
  <2>2. FloorAims(q)'
        BY <1>2 DEF FloorAims
  <2> QED BY <2>1, <2>2
<1> QED BY <1>5, <1>6, <1>7, <1>8 DEF IInv

LEMMA ScaleStep ==
    ASSUME IInv, NEW f, NEW n \in Nat,
           ScaleWritten(f, n), UNCHANGED <<hpa, hcache, hold, floor>>,
           \A q \in Runs : Fine(f[q]) /\ f[q].job = run[q].job,
           \A q \in Runs : f[q].at \in {"get_scale", "put_hpa"} => f[q] = run[q],
           \A q \in Runs : f[q].at \in {"put_scale", "scaled"}
                              => run[q].at \in {"put_scale", "scaled"}
    PROVE  IInv'
<1> DEFINE mark(q) == f[q].sstale \/ (n # scale /\ f[q].at \in {"put_hpa", "put_scale"})
<1>1. \A q \in Runs : run'[q] = [f[q] EXCEPT !.sstale = mark(q)]
      BY DEF ScaleWritten
<1>2. ASSUME NEW q \in Runs
      PROVE  /\ Fine(run'[q])
             /\ run'[q].at = f[q].at /\ run'[q].job = run[q].job
             /\ run'[q].hpa = f[q].hpa /\ run'[q].hstale = f[q].hstale
  <2>1. mark(q) \in BOOLEAN
        BY DEF Fine, Records
  <2>2. Fine(f[q]) /\ f[q].job = run[q].job
        OBVIOUS
  <2> HIDE DEF mark
  <2>3. PICK b \in BOOLEAN : b = mark(q) /\ run'[q] = [f[q] EXCEPT !.sstale = b]
        BY <1>1, <2>1
  <2>4. PICK x : x = f[q] /\ Fine(x) /\ run'[q] = [x EXCEPT !.sstale = b]
        BY <2>2, <2>3
  <2>5. Fine(run'[q])
        BY <2>4 DEF Fine, Records
  <2>6. /\ run'[q].at = x.at /\ run'[q].job = x.job /\ run'[q].hpa = x.hpa
        /\ run'[q].hstale = x.hstale
        BY <2>4, Marked
  <2> QED BY <2>1, <2>2, <2>3, <2>4, <2>5, <2>6
<1>3. run' \in [Runs -> Records]
  <2>1. run' = [q \in Runs |-> run'[q]]
        BY DEF ScaleWritten
  <2> QED BY <1>2, <2>1 DEF Fine
<1>4. ASSUME NEW q \in Runs, HoldsHPA(q)', ~run'[q].hstale
      PROVE  run'[q].hpa = hpa
  <2>1. f[q] = run[q] /\ HoldsHPA(q) /\ ~run[q].hstale
        BY <1>2, <1>4 DEF HoldsHPA
  <2> QED BY <1>2, <2>1 DEF IInv, TypeOK
<1>5. TypeOK'
      BY <1>3, <1>4 DEF IInv, TypeOK, ScaleWritten
<1>6. AttemptsPaced'
      BY <1>2 DEF AttemptsPaced, Fine
<1>7. FloorHolds'
      BY <1>2 DEF IInv, FloorHolds, Wants
<1>8. ASSUME NEW q \in Runs
      PROVE  (Paced(q) /\ Aims(q) /\ FloorAims(q))'
      BY <1>2 DEF IInv, Paced, Aims, FloorAims, Fine
<1> QED BY <1>5, <1>6, <1>7, <1>8 DEF IInv

LEMMA StepIInv ==
    ASSUME IInv, NEW r \in Runs, Step(r)
    PROVE  IInv'
<1>0. /\ run \in [Runs -> Records] /\ run[r] \in Records /\ Fine(run[r])
      /\ scale \in Nat /\ hpa \in HPAs /\ Wants(r) \in Nat
      BY FineRuns, RunAssumption DEF IInv, TypeOK, Records, Wants
\* A run that goes to an outcome that scales nothing.
<1>1. ASSUME NEW outcome \in {"off", "failed", "skipped"}, run' = End(r, outcome),
             UNCHANGED <<hpa, hcache, hold, scale, floor>>
      PROVE  IInv'
  <2> DEFINE x == Bare(outcome, run[r].job, 0, 0)
  <2>1. run' = [run EXCEPT ![r] = x] /\ Fine(x)
        BY <1>1, EndFine DEF Outcomes
  <2>2. x.at = outcome /\ x.job = run[r].job
        BY DEF Bare
  <2> HIDE DEF x
  <2> QED BY <1>0, <1>1, <2>1, <2>2, OwnStep
\* A run that goes on and holds no copy of the HPA.
<1>2. ASSUME NEW l \in {"check", "get_hpa", "get_scale"}, run' = Goto(r, l),
             run[r].at \in {"idle", "check"},
             l \in {"get_hpa"} => run[r].job \in Through,
             l \in {"get_scale"} => run[r].job \notin Through,
             l \in Calling => run[r].age <= maxRetryTimeout,
             UNCHANGED <<hpa, hcache, hold, scale, floor>>
      PROVE  IInv'
  <2> DEFINE x == [run[r] EXCEPT !.at = l]
  <2>1. run' = [run EXCEPT ![r] = x]
        BY <1>0, <1>2 DEF Goto, Records
  <2>2. x \in Records /\ x.at = l /\ x.job = run[r].job
        /\ x.age = run[r].age /\ x.times = run[r].times
        BY <1>0 DEF Records, Calling
  <2>3. l \in Calling => run[r].times * updateRetryInterval <= maxRetryTimeout
    <3>1. run[r].times * updateRetryInterval \in Nat
          BY <1>0, Counted, RunAssumption DEF Records
    <3> QED BY <1>0, <1>2, <3>1, RunAssumption DEF Fine, Limit, Records
  <2>4. Fine(x)
        BY <1>0, <1>2, <2>2, <2>3 DEF Fine
  <2> HIDE DEF x
  <2> QED BY <1>0, <1>2, <2>1, <2>2, <2>4, OwnStep
<1>3. CASE Launch(r)
      BY <1>1, <1>2, <1>3 DEF Launch, Calling
<1>4. CASE Check(r)
  <2>1. CASE run[r].age > maxRetryTimeout
        BY <1>1, <1>4, <2>1 DEF Check
  <2>2. CASE ~(run[r].age > maxRetryTimeout)
    <3>1. run[r].age <= maxRetryTimeout
          BY <1>0, <2>2, RunAssumption DEF Records
    <3>2. CASE run[r].job \in Through
          BY <1>2, <1>4, <2>2, <3>1, <3>2 DEF Check
    <3>3. CASE run[r].job \notin Through
          BY <1>2, <1>4, <2>2, <3>1, <3>3 DEF Check
    <3> QED BY <3>2, <3>3
  <2> QED BY <2>1, <2>2
<1>5. CASE CallFails(r)
  <2>1. PICK x : /\ Retried(r) = [run EXCEPT ![r] = x]
                 /\ Fine(x) /\ x.at = "check" /\ x.job = run[r].job
        BY RetriedFine
  <2> QED BY <1>0, <1>5, <2>1, OwnStep DEF CallFails
<1>6. CASE Tick(r)
  <2> DEFINE x == [run[r] EXCEPT !.age = @ + 1]
  <2>1. run' = [run EXCEPT ![r] = x]
        BY <1>0, <1>6 DEF Tick, Records
  <2>2. run[r].age + 1 \in 0 .. Limit
        BY <1>0, <1>6, LimitType DEF Tick, Records
  <2>3. x \in Records /\ x.at = run[r].at /\ x.job = run[r].job
        /\ x.age = run[r].age + 1 /\ x.times = run[r].times
        /\ x.hpa = run[r].hpa /\ x.hstale = run[r].hstale
        BY <1>0, <2>2 DEF Records
  <2>4. Fine(x)
    <3>1. run[r].times * updateRetryInterval \in Nat
          BY <1>0, Counted, RunAssumption DEF Records
    <3> QED BY <1>0, <1>6, <2>2, <2>3, <3>1, LimitType DEF Fine, Tick, Records
  <2>5. x.at \in {"get_scale", "put_hpa"} /\ x.job \in Through /\ ~x.hstale => x.hpa = hpa
        BY <2>3 DEF IInv, TypeOK, HoldsHPA
  <2> HIDE DEF x
  <2> QED BY <1>0, <1>6, <2>1, <2>3, <2>4, <2>5, OwnStep DEF Tick
<1>7. CASE GetHPA(r)
  <2> DEFINE x == [run[r] EXCEPT !.at = "get_scale", !.hpa = hcache, !.hstale = hold]
  <2>1. run' = [run EXCEPT ![r] = x]
        BY <1>0, <1>7 DEF GetHPA, Records
  <2>2. x \in Records /\ x.at = "get_scale" /\ x.job = run[r].job
        /\ x.age = run[r].age /\ x.times = run[r].times
        /\ x.hpa = hcache /\ x.hstale = hold
        BY <1>0 DEF Records, Calling, IInv, TypeOK
  <2>3. Fine(x)
        BY <1>0, <1>7, <2>2 DEF Fine, GetHPA, Calling
  <2>4. ~x.hstale => x.hpa = hpa
        BY <2>2 DEF IInv, TypeOK
  <2> HIDE DEF x
  <2> QED BY <1>0, <1>7, <2>1, <2>2, <2>3, <2>4, OwnStep DEF GetHPA
<1>8. CASE GetScale(r)
  <2>1. ASSUME NEW l \in {"put_hpa", "put_scale"}, run' = Goto(r, l),
               l = "put_hpa" <=> run[r].job \in Through
        PROVE  IInv'
    <3> DEFINE x == [run[r] EXCEPT !.at = l]
    <3>1. run' = [run EXCEPT ![r] = x]
          BY <1>0, <2>1 DEF Goto, Records
    <3>2. x \in Records /\ x.at = l /\ x.job = run[r].job
          /\ x.age = run[r].age /\ x.times = run[r].times
          /\ x.hpa = run[r].hpa /\ x.hstale = run[r].hstale
          BY <1>0 DEF Records, Calling
    <3>3. Fine(x)
          BY <1>0, <1>8, <2>1, <3>2 DEF Fine, GetScale, Calling
    <3>4. x.job \in Through /\ ~x.hstale => x.hpa = hpa
          BY <1>8, <3>2 DEF IInv, TypeOK, HoldsHPA, GetScale
    <3> HIDE DEF x
    <3> QED BY <1>0, <1>8, <2>1, <3>1, <3>2, <3>3, <3>4, OwnStep DEF GetScale
  <2> QED BY <1>1, <1>8, <2>1 DEF GetScale
<1>9. CASE PutHPA(r)
  <2> DEFINE h == Widened(run[r].hpa, Wants(r))
  <2>1. h \in HPAs /\ h.current < Wants(r) => h.min = Wants(r) /\ Wants(r) <= h.max
    <3>1. run[r].hpa \in HPAs
          BY <1>0 DEF Records
    <3> QED BY <1>0, <3>1, WidenedType
  <2>2. h \in HPAs
        BY <1>0, WidenedType DEF Records
  <2> HIDE DEF h
  <2>3. PICK f \in {Continued(r, h), Retried(r)} : HPAWritten(f, h)
        BY <1>9 DEF PutHPA, h
  <2>4. PICK x : /\ f = [run EXCEPT ![r] = x] /\ Fine(x) /\ x.job = run[r].job
                 /\ \/ x.at \in {"skipped", "check"}
                    \/ x.at = "put_scale" /\ h.current < Wants(r)
    <3>1. CASE f = Continued(r, h)
          BY <1>9, <2>2, <3>1, ContinuedFine DEF PutHPA
    <3>2. CASE f = Retried(r)
          BY <3>2, RetriedFine
    <3> QED BY <2>3, <3>1, <3>2
  <2>5. \A q \in Runs : f[q] = IF q = r THEN x ELSE run[q]
        BY <1>0, <2>4
  <2>6. \A q \in Runs : Fine(f[q]) /\ f[q].job = run[q].job
        BY <2>4, <2>5, FineRuns
  <2>7. \A q \in Runs : f[q].at \in {"get_scale", "put_hpa"} => f[q] = run[q]
        BY <2>4, <2>5
  <2>8. x.job \in Through
        BY <1>9, <2>4 DEF PutHPA, IInv, Aims
  <2>9. \A q \in Runs :
           floor' = q =>
              /\ f[q].job \in Through
              /\ f[q].at \in {"put_scale", "scaled"}
                    => h.min = Wants(q) /\ Wants(q) <= h.max
        BY <1>9, <2>1, <2>2, <2>4, <2>5, <2>8 DEF PutHPA
  <2>10. floor' \in Runs \cup {Nobody} /\ UNCHANGED <<hcache, scale>>
        BY <1>9 DEF PutHPA
  <2> QED BY <2>2, <2>3, <2>6, <2>7, <2>9, <2>10, HPAStep
<1>10. CASE PutScale(r)
  <2>1. PICK f \in {End(r, "scaled"), Retried(r)} : ScaleWritten(f, Wants(r))
        BY <1>10 DEF PutScale
  <2>2. PICK x : /\ f = [run EXCEPT ![r] = x] /\ Fine(x) /\ x.job = run[r].job
                 /\ x.at \in {"scaled", "check"}
    <3>1. CASE f = End(r, "scaled")
      <4>1. /\ Bare("scaled", run[r].job, 0, 0).job = run[r].job
            /\ Bare("scaled", run[r].job, 0, 0).at = "scaled"
            BY DEF Bare
      <4> QED BY <3>1, <4>1, EndFine DEF Outcomes
    <3>2. CASE f = Retried(r)
          BY <3>2, RetriedFine
    <3> QED BY <2>1, <3>1, <3>2
  <2>3. \A q \in Runs : f[q] = IF q = r THEN x ELSE run[q]
        BY <1>0, <2>2
  <2>4. \A q \in Runs : Fine(f[q]) /\ f[q].job = run[q].job
        BY <2>2, <2>3, FineRuns
  <2>5. \A q \in Runs : f[q].at \in {"get_scale", "put_hpa"} => f[q] = run[q]
        BY <2>2, <2>3
  <2>6. \A q \in Runs : f[q].at \in {"put_scale", "scaled"}
                            => run[q].at \in {"put_scale", "scaled"}
        BY <1>10, <2>3 DEF PutScale
  <2> QED BY <1>0, <1>10, <2>1, <2>4, <2>5, <2>6, ScaleStep DEF PutScale
<1> QED BY <1>3, <1>4, <1>5, <1>6, <1>7, <1>8, <1>9, <1>10 DEF Step

LEMMA EnvironmentIInv ==
    ASSUME IInv, Environment
    PROVE  IInv'
<1>0. /\ hpa \in HPAs /\ scale \in Nat /\ floor \in Runs \cup {Nobody}
      /\ \A q \in Runs : Fine(run[q])
      BY FineRuns DEF IInv, TypeOK
<1>1. ASSUME NEW min \in 1 .. MaxSize, NEW max \in 1 .. MaxSize, UserBounds(min, max)
      PROVE  IInv'
  <2> DEFINE h == [hpa EXCEPT !.min = min, !.max = max]
  <2>1. h \in HPAs
    <3>1. min \in Nat /\ max \in Nat
          BY RunAssumption
    <3> QED BY <1>0, <3>1 DEF HPAs
  <2>2. HPAWritten(run, h) /\ floor' = Nobody /\ UNCHANGED <<hcache, scale>>
        BY <1>1 DEF UserBounds
  <2> HIDE DEF h
  <2>3. \A q \in Runs : floor' # q
        BY <2>2, RunAssumption
  <2> QED BY <1>0, <2>1, <2>2, <2>3, HPAStep
<1>2. ASSUME NEW n \in 1 .. MaxSize, Autoscale(n)
      PROVE  IInv'
  <2>1. n \in Nat
        BY RunAssumption
  <2> QED BY <1>0, <1>2, <2>1, ScaleStep DEF Autoscale
<1>3. CASE Report
  <2> DEFINE h == [hpa EXCEPT !.current = scale]
  <2>1. h \in HPAs /\ h.min = hpa.min /\ h.max = hpa.max
        BY <1>0 DEF HPAs
  <2>2. HPAWritten(run, h) /\ UNCHANGED <<hcache, scale, floor>>
        BY <1>3 DEF Report
  <2> HIDE DEF h
  <2>3. \A q \in Runs :
           floor' = q =>
              /\ run[q].job \in Through
              /\ run[q].at \in {"put_scale", "scaled"}
                    => h.min = Wants(q) /\ Wants(q) <= h.max
        BY <2>1, <2>2 DEF IInv, FloorAims, FloorHolds
  <2> QED BY <1>0, <2>1, <2>2, <2>3, HPAStep
<1>4. CASE Sync
  <2>1. TypeOK'
        BY <1>4 DEF Sync, IInv, TypeOK, HoldsHPA
  <2>2. AttemptsPaced' /\ FloorHolds'
        BY <1>4 DEF Sync, IInv, AttemptsPaced, FloorHolds, Wants
  <2>3. ASSUME NEW q \in Runs
        PROVE  (Paced(q) /\ Aims(q) /\ FloorAims(q))'
        BY <1>4 DEF Sync, IInv, Paced, Aims, FloorAims
  <2> QED BY <2>1, <2>2, <2>3 DEF IInv
<1> QED BY <1>1, <1>2, <1>3, <1>4 DEF Environment

LEMMA StutterIInv ==
    ASSUME IInv, UNCHANGED vars
    PROVE  IInv'
<1>1. TypeOK'
      BY DEF vars, IInv, TypeOK, HoldsHPA
<1>2. AttemptsPaced' /\ FloorHolds'
      BY DEF vars, IInv, AttemptsPaced, FloorHolds, Wants
<1>3. ASSUME NEW q \in Runs
      PROVE  (Paced(q) /\ Aims(q) /\ FloorAims(q))'
      BY DEF vars, IInv, Paced, Aims, FloorAims
<1> QED BY <1>1, <1>2, <1>3 DEF IInv

LEMMA NextIInv == IInv /\ [Next]_vars => IInv'
BY StepIInv, EnvironmentIInv, StutterIInv DEF Next

LEMMA Always == Spec => []IInv
BY InitIInv, NextIInv, PTL DEF Spec

-------------------------------------------------------------------------------
\* The theorems.

\* The HPA, the target and the runs keep their types, and a copy of the HPA that
\* no write has overtaken is the HPA: what the version check of Update rests on.
THEOREM TypeCorrect == Spec => []TypeOK
<1>1. IInv => TypeOK
      BY DEF IInv
<1> QED BY <1>1, Always, PTL

\* However long calls take and however often they fail, a run makes no more than
\* maxRetryTimeout \div updateRetryInterval retries (cronjob.go:105-129).
THEOREM AttemptsBounded == Spec => []AttemptsPaced
<1>1. IInv => AttemptsPaced
      BY DEF IInv
<1> QED BY <1>1, Always, PTL

\* The bounds a run leaves behind hold the target it scales at its size, for any
\* number of runs, failures between the two writes included (cronjob.go:178-217).
THEOREM FloorKept == Spec => []FloorHolds
<1>1. IInv => FloorHolds
      BY DEF IInv
<1> QED BY <1>1, Always, PTL

LEMMA FollowStep ==
    ASSUME IInv, [Next]_vars, hpa'.min # hpa.min \/ hpa'.max # hpa.max
    PROVE  \/ floor' = Nobody
           \/ \E r \in Runs : floor' = r /\ hpa' = Widened(hpa, Wants(r))
<1>1. ASSUME NEW r \in Runs, Step(r)
      PROVE  floor' = r /\ hpa' = Widened(hpa, Wants(r))
  <2>1. PutHPA(r)
        BY <1>1 DEF Step, Launch, Check, CallFails, Tick, GetHPA, GetScale, PutScale
  <2>2. run[r].hpa = hpa
        BY <2>1 DEF PutHPA, IInv, TypeOK, Aims, HoldsHPA
  <2> QED BY <2>1, <2>2 DEF PutHPA, HPAWritten
<1>2. ASSUME Environment
      PROVE  floor' = Nobody
  <2>1. hpa \in HPAs
        BY DEF IInv, TypeOK
  <2>2. ~Report
        BY <2>1 DEF Report, HPAWritten, HPAs
  <2> QED BY <1>2, <2>2 DEF Environment, UserBounds, Autoscale, Sync
<1>3. ~UNCHANGED vars
      BY DEF vars
<1> QED BY <1>1, <1>2, <1>3 DEF Next

\* No run undoes what a user or another run has written to the HPA since it read
\* it, for any number of runs and however late the cache is (cronjob.go:201-206).
THEOREM BoundsFollowed == Spec => BoundsFollow
<1>1. IInv /\ [Next]_vars =>
         [hpa'.min # hpa.min \/ hpa'.max # hpa.max =>
            \/ floor' = Nobody
            \/ \E r \in Runs : floor' = r /\ hpa' = Widened(hpa, Wants(r))]_vars
      BY FollowStep
<1> QED BY <1>1, Always, PTL DEF Spec, BoundsFollow
===============================================================================
