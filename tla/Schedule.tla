------------------------------- MODULE Schedule -------------------------------
(***************************************************************************)
(* The search for the next activation of a cron schedule                   *)
(* (vendor/github.com/ringtail/go-cron/spec.go, SpecSchedule.Next), which  *)
(* both the engine's timer and the exclude dates rest on.  It is a nest of *)
(* loops over the fields, from the month to the second, with a goto back   *)
(* to the head whenever a field wraps around, a flag that truncates the    *)
(* time once, and a limit on the years: one action per turn of a loop.     *)
(*                                                                         *)
(* Time is counted in whole seconds, as Next does after its first step.    *)
(* The calendar is data.  Each second t lies in one year, month, day, hour *)
(* and minute: unit u of t begins at Start[u][t], ends before End[u][t]    *)
(* and has the number Value[u][t].  Units may differ in length (months and *)
(* years do); a location whose clocks change is outside the assumption     *)
(* when a day has no midnight.  Adding a month, a day, an hour... to a     *)
(* time adds the length of the unit it is in: AddDate(0,1,0) keeps the day *)
(* and lets it overflow.                                                   *)
(***************************************************************************)
EXTENDS Parser

CONSTANTS Horizon,      \* the last second of the calendar
          Start, End,   \* the bounds of the unit a second is in
          Value,        \* the number of that unit
          YearSpan,     \* how many years ahead Next searches
          Froms         \* the times it is asked about

Time == 0 .. Horizon
Units == Year .. Second
Loops == Month .. Second

\* Nested units of constant number, numbered from Low at the start of the one
\* they are part of; a day of the week belongs to a day.
ASSUME CalendarAssumption ==
    /\ Horizon \in Nat
    /\ Start \in [Units -> [Time -> Time]]
    /\ End \in [Units -> [Time -> 1 .. Horizon + 1]]
    /\ Value \in [Year .. Dow -> [Time -> Nat]]
    /\ \A u \in Units, x \in Time :
          /\ Start[u][x] <= x
          /\ x < End[u][x]
          /\ \A y \in Start[u][x] .. End[u][x] - 1 :
                /\ Start[u][y] = Start[u][x]
                /\ End[u][y] = End[u][x]
                /\ Value[u][y] = Value[u][x]
                /\ u = Day => Value[Dow][y] = Value[Dow][x]
    /\ \A u \in Loops, x \in Time :
          /\ Start[u - 1][x] <= Start[u][x]
          /\ End[u][x] <= End[u - 1][x]
          /\ Value[u][x] = Low[u] <=> Start[u][x] = Start[u - 1][x]
    /\ \A f \in Fields, x \in Time : Value[f][x] \in All(f)
    /\ \A x, y \in Time : x <= y => Value[Year][x] <= Value[Year][y]

\* The calendar reaches past the limit of every search.
ASSUME HorizonAssumption ==
    /\ YearSpan \in Nat
    /\ Froms \subseteq Time
    /\ \A x \in Froms :
          /\ x + 1 \in Time
          /\ Value[Year][x + 1] + YearSpan < Value[Year][Horizon]

VARIABLES
    pc,       \* "idle", "search", or how Next has ended: "found", "none",
              \* and "delayed" for a ConstantDelaySchedule
    sched,    \* the schedule
    from,     \* the time Next was given
    t,        \* Next's t
    added,    \* Next's added
    limit,    \* Next's yearLimit
    loop      \* the loop Next is in, or Year at the label WRAP

searchVars == <<pc, sched, from, t, added, limit, loop>>

NoSchedule == [field |-> [f \in Fields |-> {}], star |-> FALSE]

SearchInit ==
    /\ pc = "idle"
    /\ sched = NoSchedule
    /\ from = 0
    /\ t = 0
    /\ added = FALSE
    /\ limit = 0
    /\ loop = Year

-------------------------------------------------------------------------------
\* dayMatches: with a star in either of them both fields must match.
DayMatches(s, x) ==
    LET dom == Value[Day][x] \in s.field[Day]
        dow == Value[Dow][x] \in s.field[Dow]
    IN  IF s.star THEN dom /\ dow ELSE dom \/ dow

Matches(s, u, x) ==
    IF u = Day THEN DayMatches(s, x) ELSE Value[u][x] \in s.field[u]

Activates(s, x) == \A u \in Loops : Matches(s, u, x)

\* Time x moved by one unit u.
Add(u, x) == x + (End[u][x] - Start[u][x])

\* Next is called with time x and starts at the upcoming second.
Begin(s, x) ==
    /\ pc' = "search"
    /\ sched' = s
    /\ from' = x
    /\ t' = x + 1
    /\ added' = FALSE
    /\ limit' = Value[Year][x + 1] + YearSpan
    /\ loop' = Year

\* WRAP: give up beyond the limit, or start again with the month.
Wrap ==
    /\ pc = "search" /\ loop = Year
    /\ IF Value[Year][t] > limit
       THEN pc' = "none" /\ UNCHANGED loop
       ELSE loop' = Month /\ UNCHANGED pc
    /\ UNCHANGED <<sched, from, t, added, limit>>

\* Mutant: after the last field all of them are verified once more.
KeepForever ==
    /\ pc = "search" /\ loop # Year
    /\ Matches(sched, loop, t)
    /\ loop' = IF loop = Second THEN Year ELSE loop + 1
    /\ UNCHANGED <<pc, sched, from, t, added, limit>>

\* A field that matches: on to the next loop; after the last one t is returned.
Keep ==
    /\ pc = "search" /\ loop # Year
    /\ Matches(sched, loop, t)
    /\ IF loop = Second
       THEN pc' = "found" /\ UNCHANGED loop
       ELSE loop' = loop + 1 /\ UNCHANGED pc
    /\ UNCHANGED <<sched, from, t, added, limit>>

\* Mutant: the finer parts of the time are not reset.
SkipUntruncated ==
    /\ pc = "search" /\ loop # Year
    /\ ~Matches(sched, loop, t)
    /\ added' = TRUE
    /\ t' = Add(loop, t)
    /\ loop' = IF Value[loop][t'] = Low[loop] THEN Year ELSE loop
    /\ UNCHANGED <<pc, sched, from, limit>>

\* A field that does not: the time is truncated to its unit, the first time
\* anything is added, and moved by one; around the end of the unit above Next
\* goes back to WRAP.
Skip ==
    /\ pc = "search" /\ loop # Year
    /\ ~Matches(sched, loop, t)
    /\ added' = TRUE
    /\ t' = Add(loop, IF added THEN t ELSE Start[loop][t])
    /\ loop' = IF Value[loop][t'] = Low[loop] THEN Year ELSE loop
    /\ UNCHANGED <<pc, sched, from, limit>>

Search == Wrap \/ Keep \/ Skip

\* ConstantDelaySchedule.Next: no search; Every makes less than a second one.
Delay(d, x) ==
    /\ pc' = "delayed"
    /\ t' = x + (IF d = 0 THEN 1 ELSE d)
    /\ UNCHANGED <<sched, from, added, limit, loop>>

-------------------------------------------------------------------------------
\* Properties.

SearchTypeOK ==
    /\ pc \in {"idle", "search", "found", "none", "delayed"}
    /\ sched \in Schedules
    /\ from \in Time
    /\ t \in Time
    /\ added \in BOOLEAN
    /\ limit \in Nat
    /\ loop \in Units

\* "Next returns the next time this schedule is activated, greater than the
\* given time.  If no time can be found to satisfy the schedule, return the
\* zero time." (spec.go:53-54)  Truncating once and going back to WRAP loses no
\* activation and keeps none that has stopped matching.
FindsNext ==
    /\ pc = "found" =>
          /\ t > from
          /\ Activates(sched, t)
          /\ \A x \in from + 1 .. t - 1 : ~Activates(sched, x)
    /\ pc = "none" =>
          \A x \in from + 1 .. Horizon :
              Value[Year][x] <= limit => ~Activates(sched, x)

\* Every search ends, also for a schedule that is never satisfied
\* (spec.go:72-77).
SearchEnds == pc = "search" ~> pc # "search"
===============================================================================
