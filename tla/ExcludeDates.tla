----------------------------- MODULE ExcludeDates -----------------------------
(***************************************************************************)
(* IsTodayOff (pkg/controller/cronjob.go): before a job does anything it   *)
(* asks whether one of its exclude dates, which are cron specifications,   *)
(* is today.  The dates are tried in their order: one that does not parse  *)
(* is passed over, and one whose next activation prints as the present     *)
(* does ends the loop.                                                     *)
(*                                                                         *)
(* The print is Format("11-15-1990").  That is no date layout: Go reads it *)
(* as month, month, hour, month and the text "990", so that what is        *)
(* compared is the month and the hour.  The zero time, which Next returns  *)
(* when it finds nothing, prints as January and hour zero.                 *)
(***************************************************************************)
EXTENDS Schedule

CONSTANT DateLists    \* the lists of exclude dates asked about

\* Lists of specifications, whose delays end within the calendar.
ASSUME DatesAssumption ==
    \A ds \in DateLists :
        /\ Len(ds) \in Nat /\ DOMAIN ds = 1 .. Len(ds)
        /\ \A j \in DOMAIN ds :
              /\ ds[j] \in Specs
              /\ ds[j].kind = "every" => \A x \in Froms : x + ds[j].delay \in Time

VARIABLES
    dates,    \* excludeDates
    k,        \* the position of the loop in dates
    now,      \* the time of the call
    off       \* "idle", "asking", or the answer: "yes", "no"

vars == <<searchVars, dates, k, now, off>>

TypeOK ==
    /\ SearchTypeOK
    /\ dates \in DateLists
    /\ k \in 1 .. Len(dates) + 1
    /\ now \in Time
    /\ off \in {"asking", "yes", "no"}
    /\ \A f \in Fields : sched.field[f] \subseteq All(f)

\* A call, at any of the times.
Init ==
    /\ SearchInit
    /\ dates \in DateLists
    /\ k = 1
    /\ now \in Froms
    /\ off = "asking"

-------------------------------------------------------------------------------
\* Mutant: the hour is not in the layout.
FormatMonth(x) == <<Value[Month][x], 0>>

Format(x) == <<Value[Month][x], Value[Hour][x]>>

\* time.Time{}, in UTC.
FormatOfZero == <<Low[Month], Low[Hour]>>

\* A date is parsed and its schedule asked for the next activation.
TryDate ==
    /\ off = "asking" /\ pc = "idle" /\ k <= Len(dates)
    /\ Accepts(dates[k])
    /\ IF dates[k].kind = "every"
       THEN Delay(dates[k].delay, now)
       ELSE Begin(Parse(dates[k]), now)
    /\ UNCHANGED <<dates, k, now, off>>

\* Mutant: a date that does not parse ends the loop.
PassOverBreaks ==
    /\ off = "asking" /\ pc = "idle" /\ k <= Len(dates)
    /\ ~Accepts(dates[k])
    /\ off' = "no"
    /\ UNCHANGED <<searchVars, dates, k, now>>

PassOver ==
    /\ off = "asking" /\ pc = "idle" /\ k <= Len(dates)
    /\ ~Accepts(dates[k])
    /\ k' = k + 1
    /\ UNCHANGED <<searchVars, dates, now, off>>

Compare ==
    /\ off = "asking" /\ pc \in {"found", "none", "delayed"}
    /\ IF Format(now) = (IF pc = "none" THEN FormatOfZero ELSE Format(t))
       THEN off' = "yes" /\ UNCHANGED <<k, pc>>
       ELSE k' = k + 1 /\ pc' = "idle" /\ UNCHANGED off
    /\ UNCHANGED <<sched, from, t, added, limit, loop, dates, now>>

NoDate ==
    /\ off = "asking" /\ pc = "idle" /\ k > Len(dates)
    /\ off' = "no"
    /\ UNCHANGED <<searchVars, dates, k, now>>

Next ==
    \/ TryDate
    \/ Search /\ UNCHANGED <<dates, k, now, off>>
    \/ PassOver
    \/ Compare
    \/ NoDate

Spec == Init /\ [][Next]_vars

\* The goroutine of the job runs.
FairSpec == Spec /\ WF_vars(Next)
-------------------------------------------------------------------------------
\* Properties.

\* What the dates say, in terms of the calendar alone.
Dated == {Parse(dates[j]) : j \in {l \in DOMAIN dates :
                                      Accepts(dates[l]) /\ dates[l].kind # "every"}}

\* The day is one of those a schedule names, whatever its hours.
NamesDay(s, x) == Matches(s, Month, x) /\ Matches(s, Day, x)

WholeDay(s) == \A u \in {Hour, Minute, Second} : s.field[u] = All(u)

\* A date that names a whole day holds the job off all through that day, wherever
\* it stands among dates that do not parse or are not today; except in the last
\* second of an hour, from which the next activation is in another hour
\* (cronjob.go:314-323).
NamedDayIsOff ==
    off = "no" =>
        \A s \in Dated :
            WholeDay(s) /\ NamesDay(s, now) => now + 1 = End[Hour][now]

\* Unless a delay is among the dates, a job is held off only in a month and an
\* hour in which a date is activated within the years Next searches, or in
\* hour zero of January if some date never is (cronjob.go:320).
OffOnlyInNamedHour ==
    off = "yes" /\ pc # "delayed" =>
        \E s \in Dated :
            LET ahead == {x \in now + 1 .. Horizon :
                            /\ Value[Year][x] <= Value[Year][now + 1] + YearSpan
                            /\ Activates(s, x)}
            IN  IF ahead = {}
                THEN \A u \in {Month, Hour} : Value[u][now] = Low[u]
                ELSE \E x \in ahead :
                        \A u \in {Month, Hour} : Value[u][x] = Value[u][now]

\* README.md:259 "The job will skip the execution when the dates is matched. The
\* minimum unit is day."  A job that is held off is so by a date that is matched
\* on that day.
OffOnlyThatDay ==
    off = "yes" /\ pc # "delayed" =>
        \E s \in Dated, x \in Start[Day][now] .. End[Day][now] - 1 : Activates(s, x)
===============================================================================
