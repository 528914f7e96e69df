-------------------------- MODULE ExcludeDatesProofs --------------------------
(***************************************************************************)
(* For every calendar, list of dates and time: the search finds the least  *)
(* activation (FindsNext), and a date that names a whole day is applied    *)
(* (NamedDayIsOff), and what holds a job off is a date activated in the    *)
(* same month and hour, or one that never is (OffOnlyInNamedHour).         *)
(*                                                                         *)
(* FindsNext rests on one idea.  After the first addition t is truncated   *)
(* once only, and yet every unit whose field fails to match must be left   *)
(* at its start.  The last conjunct of SInv says why: each unit of t       *)
(* either is at its start or matches.                                      *)
(***************************************************************************)
EXTENDS ExcludeDates, Integers, TLAPS

USE DEF Year, Month, Day, Hour, Minute, Second, Dow

-------------------------------------------------------------------------------
\* The calendar.

\* Times x and y lie in one unit u.
SameUnit(u, x, y) ==
    /\ Start[u][x] = Start[u][y]
    /\ End[u][x] = End[u][y]
    /\ Value[u][x] = Value[u][y]
    /\ u = Day => Value[Dow][x] = Value[Dow][y]

LEMMA CellType ==
    ASSUME NEW u \in Units, NEW x \in Time
    PROVE  /\ Horizon \in Nat /\ x \in Nat
           /\ Start[u][x] \in Nat /\ Start[u][x] <= x
           /\ End[u][x] \in Nat /\ x < End[u][x] /\ End[u][x] <= Horizon + 1
           /\ Value[u][x] \in Nat
<1>1. Horizon \in Nat /\ x \in Nat
  BY CalendarAssumption DEF Time
<1>2. Start[u] \in [Time -> Time] /\ End[u] \in [Time -> 1 .. Horizon + 1]
  BY CalendarAssumption
<1>3. Value[u] \in [Time -> Nat]
  <2>1. u \in Year .. Dow
    BY DEF Units
  <2> QED
    BY <2>1, CalendarAssumption
<1>4. Start[u][x] <= x /\ x < End[u][x]
  BY CalendarAssumption
<1>5. Start[u][x] \in Time /\ End[u][x] \in 1 .. Horizon + 1 /\ Value[u][x] \in Nat
  BY <1>2, <1>3
<1> QED
  BY <1>1, <1>4, <1>5 DEF Time

LEMMA Within ==
    ASSUME NEW u \in Units, NEW x \in Time, NEW y \in Int,
           Start[u][x] <= y, y < End[u][x]
    PROVE  y \in Time /\ SameUnit(u, y, x)
<1>1. y \in Start[u][x] .. End[u][x] - 1
  BY CellType
<1>2. y \in Time
  BY CellType DEF Time
<1> QED
  BY <1>1, <1>2, CalendarAssumption DEF SameUnit

\* A unit is inside the ones above it.
LEMMA Inside ==
    ASSUME NEW u \in Units, NEW v \in Units, v <= u, NEW x \in Time
    PROVE  Start[v][x] <= Start[u][x] /\ End[u][x] <= End[v][x]
<1>1. \A w \in Loops : Start[w - 1][x] <= Start[w][x] /\ End[w][x] <= End[w - 1][x]
  BY CalendarAssumption
<1>2. /\ Start[0][x] <= Start[1][x] /\ End[1][x] <= End[0][x]
      /\ Start[1][x] <= Start[2][x] /\ End[2][x] <= End[1][x]
      /\ Start[2][x] <= Start[3][x] /\ End[3][x] <= End[2][x]
      /\ Start[3][x] <= Start[4][x] /\ End[4][x] <= End[3][x]
      /\ Start[4][x] <= Start[5][x] /\ End[5][x] <= End[4][x]
  BY <1>1 DEF Loops
<1>3. \A w \in Units : Start[w][x] \in Nat /\ End[w][x] \in Nat
  BY CellType
<1> QED
  BY <1>2, <1>3 DEF Units

\* Past the end of a unit begins another one; a unit above it either begins
\* there too or goes on.
LEMMA NextUnit ==
    ASSUME NEW u \in Units, NEW x \in Time, NEW y \in Time, y = End[u][x],
           NEW v \in Units
    PROVE  /\ u <= v => Start[v][y] = y
           /\ v <= u => Start[v][y] = y \/ SameUnit(v, y, x)
<1>1. y - 1 \in Int /\ Start[u][x] <= y - 1 /\ y - 1 < End[u][x] /\ y \in Int
  BY CellType
<1>2. y - 1 \in Time /\ SameUnit(u, y - 1, x)
  BY <1>1, Within
<1>3. Start[u][y] = y
  <2> SUFFICES ASSUME Start[u][y] # y PROVE FALSE
    OBVIOUS
  <2>1. Start[u][y] <= y - 1 /\ y - 1 < End[u][y] /\ y < End[u][y]
    BY <1>1, CellType
  <2>2. SameUnit(u, y - 1, y)
    BY <2>1, <1>1, Within
  <2> QED
    BY <2>1, <2>2, <1>2, CellType DEF SameUnit
<1>4. ASSUME u <= v PROVE Start[v][y] = y
  BY <1>3, <1>4, Inside, CellType
<1>5. ASSUME v <= u, Start[v][y] # y PROVE SameUnit(v, y, x)
  <2>1. Start[v][y] <= y - 1 /\ y - 1 < End[v][y]
    BY <1>1, <1>5, CellType
  <2>2. SameUnit(v, y - 1, y)
    BY <2>1, <1>1, Within
  <2>3. Start[v][x] <= y - 1 /\ y - 1 < End[v][x]
    BY <1>1, <1>5, Inside, CellType
  <2>4. SameUnit(v, y - 1, x)
    BY <2>3, <1>1, Within
  <2> QED
    BY <2>2, <2>4 DEF SameUnit
<1> QED
  BY <1>4, <1>5

\* A field matches all through its unit.
LEMMA Matching ==
    ASSUME NEW s, NEW u \in Loops, NEW x, NEW y, SameUnit(u, x, y)
    PROVE  Matches(s, u, x) <=> Matches(s, u, y)
  BY DEF Matches, DayMatches, SameUnit, Loops

-------------------------------------------------------------------------------
\* The search.

SInv ==
    pc = "search" =>
        /\ from \in Froms
        /\ t \in Time
        /\ from < t
        /\ added \in BOOLEAN
        /\ loop \in Units
        /\ limit = Value[Year][from + 1] + YearSpan
        /\ loop # Year => Value[Year][t] <= limit
        /\ \A x \in from + 1 .. t - 1 : ~Activates(sched, x)
        /\ \A u \in Loops : u < loop => Matches(sched, u, t)
        /\ added => \A u \in Loops : Start[u][t] = t \/ Matches(sched, u, t)

LEMMA FromType ==
    ASSUME NEW x \in Froms
    PROVE  /\ x \in Nat /\ x + 1 \in Time
           /\ Value[Year][x + 1] \in Nat
           /\ Value[Year][Horizon] \in Nat
           /\ YearSpan \in Nat
           /\ Value[Year][x + 1] + YearSpan < Value[Year][Horizon]
           /\ Horizon \in Time
<1>1. x + 1 \in Time /\ x \in Time /\ YearSpan \in Nat
      /\ Value[Year][x + 1] + YearSpan < Value[Year][Horizon]
  BY HorizonAssumption
<1>2. Horizon \in Time /\ x \in Nat
  BY <1>1, CalendarAssumption DEF Time
<1>3. Year \in Units
  BY DEF Units
<1> QED
  BY <1>1, <1>2, <1>3, CellType

LEMMA BeginKeeps ==
    ASSUME NEW s, NEW x \in Froms, Begin(s, x)
    PROVE  SInv'
<1>1. /\ pc' = "search" /\ from' = x /\ t' = x + 1 /\ added' = FALSE /\ loop' = 0
      /\ limit' = Value[Year][x + 1] + YearSpan /\ sched' = s
  BY DEF Begin
<1>2. x + 1 \in Time
  BY FromType
<1>3. from' + 1 .. t' - 1 = {} /\ from' < t'
  BY <1>1, FromType
<1>4. \A z \in from' + 1 .. t' - 1 : ~Activates(sched, z)'
  BY <1>3
<1>5. \A u \in Loops : ~(u < loop')
  BY <1>1 DEF Loops
<1>6. limit' = Value[Year][from' + 1] + YearSpan
  BY <1>1
<1>7. from' \in Froms /\ t' \in Time /\ loop' \in Units /\ added' \in BOOLEAN
  <2>1. 0 \in Units
    BY DEF Units
  <2> QED
    BY <1>1, <1>2, <2>1
<1>8. ~added' /\ loop' = Year
  BY <1>1
<1> QED
  BY <1>3, <1>4, <1>5, <1>6, <1>7, <1>8 DEF SInv

LEMMA WrapKeeps ==
    ASSUME SInv, Wrap
    PROVE  SInv' /\ (pc' = "none" => FindsNext')
<1>1. CASE Value[Year][t] > limit
  <2>1. SInv' /\ pc' = "none" /\ UNCHANGED <<sched, from, limit>>
    BY <1>1 DEF Wrap, SInv
  <2>2. ASSUME NEW x \in from + 1 .. Horizon, Value[Year][x] <= limit
        PROVE  ~Activates(sched, x)
    <3>1. x \in Time /\ t \in Time /\ from \in Froms
      <4>1. t \in Time /\ from \in Froms
        BY DEF SInv, Wrap
      <4>2. from \in Nat /\ Horizon \in Nat
        BY <4>1, FromType, CalendarAssumption
      <4> QED
        BY <4>1, <4>2 DEF Time
    <3>2. CASE t <= x
      <4>1. Value[Year][t] <= Value[Year][x]
        BY <3>1, <3>2, CalendarAssumption
      <4>2. Value[Year][t] \in Nat /\ Value[Year][x] \in Nat /\ limit \in Nat
        BY <3>1, FromType, CalendarAssumption DEF SInv, Wrap
      <4> QED
        BY <4>1, <4>2, <2>2, <1>1
    <3>3. CASE ~(t <= x)
      <4>1. x \in from + 1 .. t - 1
        BY <3>1, <3>3, CalendarAssumption DEF Time
      <4> QED
        BY <4>1 DEF SInv, Wrap
    <3> QED
      BY <3>2, <3>3
  <2>3. Activates(sched, 0)' = Activates(sched, 0) /\ \A x : Activates(sched, x)' = Activates(sched, x)
    BY <2>1 DEF Activates, Matches, DayMatches
  <2> QED
    BY <2>1, <2>2, <2>3 DEF FindsNext
<1>2. CASE ~(Value[Year][t] > limit)
  <2>1. Value[Year][t] \in Nat /\ limit \in Nat
    BY FromType, CalendarAssumption DEF SInv, Wrap
  <2> QED
    BY <1>2, <2>1 DEF Wrap, SInv, Units, Loops, Activates, Matches, DayMatches
<1> QED
  BY <1>1, <1>2

LEMMA KeepKeeps ==
    ASSUME SInv, Keep
    PROVE  SInv' /\ (pc' = "found" => FindsNext')
<1>1. /\ UNCHANGED <<sched, from, t, added, limit>>
      /\ pc = "search" /\ loop \in Loops /\ Matches(sched, loop, t)
  BY DEF Keep, SInv, Units, Loops
<1>2. \A x : Activates(sched, x)' = Activates(sched, x)
  BY <1>1 DEF Activates, Matches, DayMatches
<1>3. \A u : Matches(sched, u, t)' = Matches(sched, u, t)
  BY <1>1 DEF Matches, DayMatches
<1>4. \A u \in Loops : u <= loop => Matches(sched, u, t)
  BY <1>1 DEF SInv, Loops
<1>5. CASE loop = Second
  <2>1. pc' = "found"
    BY <1>5 DEF Keep
  <2>2. Activates(sched, t)
    BY <1>4, <1>5 DEF Activates, Loops
  <2> QED
    BY <1>1, <1>2, <2>1, <2>2 DEF SInv, FindsNext, Activates
<1>6. CASE loop # Second
  <2>1. loop' = loop + 1 /\ pc' = "search" /\ loop' \in Units
    BY <1>1, <1>6 DEF Keep, Loops, Units
  <2> QED
    BY <1>1, <1>2, <1>3, <1>4, <2>1 DEF SInv, Loops, Units
<1> QED
  BY <1>5, <1>6

LEMMA SkipKeeps ==
    ASSUME SInv, Skip
    PROVE  SInv'
<1> DEFINE y == End[loop][t]
<1>1. /\ pc = "search" /\ pc' = "search" /\ UNCHANGED <<sched, from, limit>>
      /\ added' = TRUE /\ ~Matches(sched, loop, t)
      /\ loop \in Loops /\ loop \in Units /\ t \in Time /\ from \in Froms /\ from < t
      /\ Value[Year][t] <= limit
  BY DEF Skip, SInv, Units, Loops
<1>2. t \in Nat /\ from \in Int /\ limit \in Nat /\ y \in Nat /\ t < y
  <2>1. from \in Int
    BY <1>1, FromType
  <2> QED
    BY <1>1, <2>1, CellType, FromType DEF SInv
\* The time is moved to the end of its unit.
<1>3. t' = y
  <2> DEFINE base == IF added THEN t ELSE Start[loop][t]
  <2>1. base = Start[loop][t]
    BY <1>1 DEF SInv
  <2>2. SameUnit(loop, base, t)
    <3>1. Start[loop][t] \in Int /\ Start[loop][t] < End[loop][t]
      BY <1>1, CellType
    <3> QED
      BY <1>1, <2>1, <3>1, Within
  <2>3. t' = base + (End[loop][base] - Start[loop][base])
    BY DEF Skip, Add
  <2>4. Start[loop][t] \in Nat /\ End[loop][t] \in Nat
    BY <1>1, CellType
  <2> QED
    BY <2>1, <2>2, <2>3, <2>4 DEF SameUnit
\* The limit keeps it inside the calendar.
<1>4. y \in Time
  <2>1. End[Year][t] <= Horizon
    <3> SUFFICES ASSUME ~(End[Year][t] <= Horizon) PROVE FALSE
      OBVIOUS
    <3>1. Year \in Units
      BY DEF Units
    <3>2. Start[Year][t] <= Horizon /\ Horizon < End[Year][t] /\ Horizon \in Int
      BY <1>1, <3>1, CellType DEF Time
    <3>3. Value[Year][Horizon] = Value[Year][t]
      BY <1>1, <3>1, <3>2, Within DEF SameUnit
    <3>4. limit < Value[Year][Horizon] /\ Value[Year][Horizon] \in Nat
      BY <1>1, FromType DEF SInv
    <3> QED
      BY <1>1, <1>2, <3>3, <3>4
  <2>2. End[loop][t] <= End[Year][t]
    BY <1>1, Inside DEF Units, Loops
  <2>3. End[Year][t] \in Nat /\ Horizon \in Nat
    BY <1>1, CellType DEF Units
  <2> QED
    BY <1>2, <2>1, <2>2, <2>3 DEF Time
\* Nothing in what was left of the unit matches.
<1>5. ASSUME NEW x \in from + 1 .. y - 1 PROVE ~Activates(sched, x)
  <2>1. CASE x < t
    BY <1>1, <1>2, <2>1 DEF SInv
  <2>2. CASE t <= x
    <3>1. Start[loop][t] <= x /\ x < End[loop][t] /\ x \in Int
      BY <1>1, <1>2, <2>2, CellType
    <3>2. SameUnit(loop, x, t)
      BY <1>1, <3>1, Within
    <3> QED
      BY <1>1, <3>2, Matching DEF Activates
  <2> QED
    BY <1>2, <2>1, <2>2
<1>6. ASSUME NEW u \in Loops
      PROVE  Start[u][y] = y \/ (u < loop /\ Matches(sched, u, y))
  <2>1. u \in Units /\ u \in Int /\ loop \in Int
    BY <1>1 DEF Units, Loops
  <2>2. CASE loop <= u
    BY <1>1, <1>4, <2>1, <2>2, NextUnit
  <2>3. CASE u < loop
    <3>1. Start[u][y] = y \/ SameUnit(u, y, t)
      BY <1>1, <1>4, <2>1, <2>3, NextUnit
    <3> QED
      BY <1>1, <2>3, <3>1, Matching DEF SInv
  <2> QED
    BY <2>1, <2>2, <2>3
\* Without a wrap the units above go on, and still match.
<1>7. ASSUME loop' # Year, NEW v \in Units, v < loop
      PROVE  SameUnit(v, y, t)
  <2>1. loop' = loop /\ Value[loop][y] # Low[loop]
    BY <1>1, <1>3, <1>7 DEF Skip
  <2>2. Start[loop][y] # Start[loop - 1][y]
    BY <1>1, <1>4, <2>1, CalendarAssumption
  <2>3. Start[loop][y] = y
    BY <1>1, <1>4, NextUnit DEF Loops
  <2>4. loop - 1 \in Units /\ v <= loop - 1
    BY <1>1, <1>7 DEF Units, Loops
  <2>5. Start[v][y] <= Start[loop - 1][y] /\ Start[loop - 1][y] < y
    BY <1>4, <2>2, <2>3, <2>4, CellType, Inside
  <2>6. Start[v][y] # y
    BY <1>4, <2>4, <2>5, CellType
  <2> QED
    BY <1>1, <1>4, <1>7, <2>6, NextUnit DEF Units, Loops
<1>8. loop' \in Units /\ (loop' # Year => loop' = loop)
  BY <1>1 DEF Skip, Units
<1>9. loop' # Year => Value[Year][y] <= limit
  BY <1>1, <1>7 DEF SameUnit, Units, Loops
<1>10. \A u \in Loops : u < loop' => Matches(sched, u, y)
  <2> SUFFICES ASSUME NEW u \in Loops, u < loop' PROVE Matches(sched, u, y)
    OBVIOUS
  <2>1. loop' # Year /\ loop' = loop /\ u \in Units /\ Matches(sched, u, t)
    BY <1>1, <1>8 DEF SInv, Units, Loops
  <2> QED
    BY <1>7, <2>1, Matching
<1>11. \A x : Activates(sched, x)' = Activates(sched, x)
  BY <1>1 DEF Activates, Matches, DayMatches
<1>12. \A u : Matches(sched, u, t)' = Matches(sched, u, y)
  BY <1>1, <1>3 DEF Matches, DayMatches
<1> HIDE DEF y
<1>13. from < y
  BY <1>1, <1>2
<1> QED
  BY <1>1, <1>3, <1>4, <1>5, <1>6, <1>8, <1>9, <1>10, <1>11, <1>12, <1>13 DEF SInv

-------------------------------------------------------------------------------
\* IsTodayOff.

\* Why the answer "no" is right about date j.
Denied(j) ==
    Accepts(dates[j]) /\ dates[j].kind # "every" =>
        LET s == Parse(dates[j])
        IN  WholeDay(s) /\ NamesDay(s, now) => now + 1 = End[Hour][now]

IInv ==
    /\ now \in Froms
    /\ dates \in DateLists
    /\ k \in Nat \ {0}
    /\ pc \in {"idle", "search", "found", "none", "delayed"}
    /\ pc # "idle" => k \in DOMAIN dates
    /\ pc \in {"search", "found", "none"} =>
          /\ sched = Parse(dates[k])
          /\ from = now
          /\ t \in Time
          /\ limit = Value[Year][from + 1] + YearSpan
          /\ dates[k].kind # "every"
    /\ pc = "delayed" => dates[k].kind = "every"
    /\ \A j \in DOMAIN dates : j < k => Denied(j)
    /\ off = "no" => \A j \in DOMAIN dates : Denied(j)
    /\ SInv
    /\ FindsNext

\* Two times that differ by a second and lie in one hour lie in one month and
\* on one day, and print alike.
LEMMA SameHour ==
    ASSUME NEW x \in Froms, x + 1 # End[Hour][x]
    PROVE  \A u \in Year .. Hour : SameUnit(u, x + 1, x)
<1> SUFFICES ASSUME NEW u \in Year .. Hour PROVE SameUnit(u, x + 1, x)
  OBVIOUS
<1>1. x \in Time /\ x + 1 \in Time /\ x \in Nat /\ u \in Units /\ Hour \in Units
  BY FromType, HorizonAssumption DEF Units
<1>2. x + 1 < End[Hour][x]
  BY <1>1, CellType
<1>3. Start[u][x] <= x + 1 /\ x + 1 < End[u][x]
  BY <1>1, <1>2, CellType, Inside
<1> QED
  BY <1>1, <1>3, Within

\* A whole day that is named is found in the next second.
LEMMA NamedDayNext ==
    ASSUME NEW s, NEW x \in Froms, WholeDay(s), NamesDay(s, x), x + 1 # End[Hour][x]
    PROVE  Activates(s, x + 1)
<1>1. SameUnit(Month, x + 1, x) /\ SameUnit(Day, x + 1, x)
  BY SameHour
<1>2. Matches(s, Month, x + 1) /\ Matches(s, Day, x + 1)
  BY <1>1, Matching DEF NamesDay, Loops
<1>3. \A u \in {Hour, Minute, Second} : Matches(s, u, x + 1)
  BY FromType, CalendarAssumption DEF WholeDay, Matches, Fields
<1> QED
  BY <1>2, <1>3 DEF Activates, Loops

LEMMA CompareDenies ==
    ASSUME IInv, Compare, off' # "yes"
    PROVE  Denied(k)
<1> SUFFICES ASSUME Accepts(dates[k]), dates[k].kind # "every",
                    WholeDay(Parse(dates[k])), NamesDay(Parse(dates[k]), now),
                    now + 1 # End[Hour][now]
             PROVE  FALSE
  BY DEF Denied
<1>1. now \in Froms /\ Activates(Parse(dates[k]), now + 1)
  BY NamedDayNext DEF IInv
<1>2. /\ pc \in {"found", "none"} /\ sched = Parse(dates[k]) /\ from = now
      /\ limit = Value[Year][now + 1] + YearSpan
  BY DEF Compare, IInv
<1>3. CASE pc = "none"
  <2>1. now + 1 \in from + 1 .. Horizon /\ Value[Year][now + 1] <= limit
    BY <1>1, <1>2, FromType DEF Time
  <2> QED
    BY <1>1, <1>2, <1>3, <2>1 DEF IInv, FindsNext
<1>4. CASE pc = "found"
  <2>1. t > now /\ \A x \in now + 1 .. t - 1 : ~Activates(sched, x)
    BY <1>2, <1>4 DEF IInv, FindsNext
  <2>2. t = now + 1
    <3>1. t \in Nat /\ now \in Nat
      <4>1. t \in Time
        BY <1>4 DEF IInv
      <4>2. t \in Nat
        BY <4>1, CalendarAssumption DEF Time
      <4>3. now \in Nat
        BY <1>1, FromType
      <4> QED
        BY <4>2, <4>3
    <3> QED
      BY <1>1, <1>2, <2>1, <3>1
  <2>3. SameUnit(Month, t, now) /\ SameUnit(Hour, t, now)
    BY <1>1, <2>2, SameHour
  <2> QED
    BY <1>4, <2>3 DEF Compare, Format, SameUnit
<1> QED
  BY <1>2, <1>3, <1>4

LEMMA InitHolds == Init => IInv
  BY FromType, DatesAssumption DEF Init, SearchInit, IInv, SInv, FindsNext, Denied

LEMMA DeniedStays ==
    ASSUME UNCHANGED <<dates, now>>
    PROVE  \A j : Denied(j)' <=> Denied(j)
  BY DEF Denied, NamesDay, Matches, DayMatches

\* What the steps of IsTodayOff that leave the search alone keep.
LEMMA SearchStays ==
    ASSUME IInv, UNCHANGED <<sched, from, t, added, limit, loop>>,
           pc' = pc \/ pc' = "idle"
    PROVE  SInv' /\ FindsNext'
  BY DEF IInv, SInv, FindsNext, Activates, Matches, DayMatches

LEMMA SearchStep ==
    ASSUME IInv, Search, UNCHANGED <<dates, k, now, off>>
    PROVE  IInv'
<1>1. /\ pc = "search" /\ pc' \in {"search", "found", "none"}
      /\ UNCHANGED <<sched, from, limit>>
  BY DEF Search, Wrap, Keep, Skip
<1>2. SInv
  BY DEF IInv
<1>3. SInv' /\ FindsNext' /\ t' \in Time
  <2>1. CASE Wrap
    BY <1>1, <1>2, <2>1, WrapKeeps DEF Wrap, SInv, FindsNext
  <2>2. CASE Keep
    BY <1>1, <1>2, <2>2, KeepKeeps DEF Keep, SInv, FindsNext
  <2>3. CASE Skip
    BY <1>1, <1>2, <2>3, SkipKeeps DEF Skip, SInv, FindsNext
  <2> QED
    BY <2>1, <2>2, <2>3 DEF Search
<1> QED
  BY <1>1, <1>3, DeniedStays DEF IInv

LEMMA TryStep ==
    ASSUME IInv, TryDate
    PROVE  IInv'
<1>1. /\ UNCHANGED <<dates, k, now, off>> /\ k \in DOMAIN dates /\ now \in Froms
      /\ pc = "idle" /\ Accepts(dates[k])
  BY DatesAssumption DEF TryDate, IInv
<1>2. \A j : Denied(j)' <=> Denied(j)
  BY <1>1, DeniedStays
<1>3. CASE dates[k].kind = "every"
  BY <1>1, <1>2, <1>3 DEF IInv, TryDate, Delay, SInv, FindsNext
<1>4. CASE dates[k].kind # "every"
  <2>1. Begin(Parse(dates[k]), now)
    BY <1>4 DEF TryDate
  <2>2. SInv'
    BY <1>1, <2>1, BeginKeeps
  <2>3. /\ pc' = "search" /\ sched' = Parse(dates[k]) /\ from' = now
        /\ limit' = Value[Year][now + 1] + YearSpan
    BY <2>1 DEF Begin
  <2>4. sched' = Parse(dates[k])'
    BY <1>1, <2>3
  <2> QED
    BY <1>1, <1>2, <1>4, <2>2, <2>3, <2>4 DEF IInv, FindsNext, SInv
<1> QED
  BY <1>3, <1>4

LEMMA PassOverStep ==
    ASSUME IInv, PassOver
    PROVE  IInv'
<1>1. /\ UNCHANGED <<searchVars, dates, now, off>> /\ k' = k + 1 /\ off = "asking"
      /\ pc = "idle" /\ ~Accepts(dates[k])
  BY DEF PassOver
<1>2. SInv' /\ FindsNext'
  BY <1>1, SearchStays DEF searchVars
<1>3. Denied(k)
  BY <1>1 DEF Denied
<1>4. \A j \in DOMAIN dates : j < k' => Denied(j)
  BY <1>1, <1>3, DatesAssumption DEF IInv
<1> QED
  BY <1>1, <1>2, <1>4, DeniedStays DEF IInv, searchVars

LEMMA CompareStep ==
    ASSUME IInv, Compare
    PROVE  IInv'
<1>1. /\ UNCHANGED <<sched, from, t, added, limit, loop, dates, now>> /\ off = "asking"
      /\ pc # "idle"
  BY DEF Compare
<1>2. CASE off' = "yes"
  <2>1. UNCHANGED <<k, pc>>
    BY <1>1, <1>2 DEF Compare
  <2> QED
    BY <1>1, <1>2, <2>1, SearchStays, DeniedStays DEF IInv
<1>3. CASE off' # "yes"
  <2>1. k' = k + 1 /\ pc' = "idle" /\ UNCHANGED off
    BY <1>3 DEF Compare
  <2>2. Denied(k)
    BY <1>3, CompareDenies
  <2>3. \A j \in DOMAIN dates : j < k' => Denied(j)
    BY <2>1, <2>2, DatesAssumption DEF IInv
  <2> QED
    BY <1>1, <2>1, <2>3, SearchStays, DeniedStays DEF IInv
<1> QED
  BY <1>2, <1>3

LEMMA NoDateStep ==
    ASSUME IInv, NoDate
    PROVE  IInv'
<1>1. /\ UNCHANGED <<searchVars, dates, k, now>> /\ off' = "no"
      /\ pc = "idle" /\ k > Len(dates)
  BY DEF NoDate
<1>2. \A j \in DOMAIN dates : Denied(j)
  BY <1>1, DatesAssumption DEF IInv
<1> QED
  BY <1>1, <1>2, SearchStays, DeniedStays DEF IInv, searchVars

LEMMA StepHolds == IInv /\ [Next]_vars => IInv'
<1> SUFFICES ASSUME IInv, [Next]_vars PROVE IInv'
  OBVIOUS
<1>1. CASE TryDate
  BY <1>1, TryStep
<1>2. CASE Search /\ UNCHANGED <<dates, k, now, off>>
  BY <1>2, SearchStep
<1>3. CASE PassOver
  BY <1>3, PassOverStep
<1>4. CASE Compare
  BY <1>4, CompareStep
<1>5. CASE NoDate
  BY <1>5, NoDateStep
<1>6. CASE UNCHANGED vars
  BY <1>6, SearchStays, DeniedStays DEF IInv, vars, searchVars
<1> QED
  BY <1>1, <1>2, <1>3, <1>4, <1>5, <1>6 DEF Next

LEMMA Invariant == Spec => []IInv
  BY InitHolds, StepHolds, PTL DEF Spec

\* The search returns the least time later than the given one that the schedule
\* names, or, when it gives up, none lies within the limit: for every calendar,
\* schedule and limit (spec.go:58-141).
THEOREM NextIsLeast == Spec => []FindsNext
<1>1. IInv => FindsNext
  BY DEF IInv
<1> QED
  BY <1>1, Invariant, PTL

\* A date that names a whole day holds the job off all through that day, except in
\* the last second of an hour (cronjob.go:307-325).
THEOREM NamedDayApplied == Spec => []NamedDayIsOff
<1>1. IInv => NamedDayIsOff
  BY DEF IInv, NamedDayIsOff, Dated, Denied
<1> QED
  BY <1>1, Invariant, PTL

-------------------------------------------------------------------------------
\* The parser.

\* A field that is accepted has only values within its bounds, and none at all
\* only if its list is empty: then its schedule is never satisfied
\* (parser.go:177-267).
THEOREM FieldWithinBounds ==
    ASSUME NEW f \in Fields, NEW rs, \A j \in DOMAIN rs : rs[j] \in Ranges,
           FieldOK(rs, f)
    PROVE  /\ Field(rs, f) \subseteq All(f)
           /\ DOMAIN rs # {} => Field(rs, f) # {}
<1>1. ASSUME NEW j \in DOMAIN rs
      PROVE  /\ Bits(rs[j], f) \subseteq All(f)
             /\ First(rs[j], f) \in Bits(rs[j], f)
  <2> DEFINE r == rs[j]
  <2>1. RangeOK(r, f) /\ r \in Ranges
    BY DEF FieldOK
  <2> HIDE DEF r
  <2>2. Low[f] \in Nat /\ High[f] \in Nat
    BY BoundsAssumption
  <2>3. First(r, f) \in Nat
    BY <2>1, <2>2 DEF First, Ranges
  <2>4. Last(r, f) \in Nat
    BY <2>1, <2>2, BoundsAssumption DEF Last, Ranges
  <2>5. Step(r) \in Nat \ {0}
    BY <2>1, BoundsAssumption DEF Step, Ranges, RangeOK
  <2>6. Bits(r, f) \subseteq All(f)
    BY <2>1, <2>2, <2>3, <2>4 DEF Bits, All, RangeOK
  <2>7. 0 % Step(r) = 0
    BY <2>5
  <2>8. First(r, f) \in First(r, f) .. Last(r, f) /\ First(r, f) - First(r, f) = 0
    BY <2>1, <2>3, <2>4 DEF RangeOK
  <2>9. First(r, f) \in Bits(r, f)
    BY <2>7, <2>8 DEF Bits
  <2> QED
    BY <2>6, <2>9 DEF r
<1> QED
  BY <1>1 DEF Field

\* A specification that is accepted has a schedule within the bounds.
LEMMA ParsedTypes ==
    ASSUME NEW spec \in Specs, Accepts(spec), spec.kind # "every"
    PROVE  Parse(spec) \in Schedules /\ \A f \in Fields : Parse(spec).field[f] \subseteq All(f)
<1>1. \A f \in Fields : All(f) \subseteq Nat /\ Low[f] \in All(f)
  BY BoundsAssumption DEF All
<1>2. CASE spec.kind = "fields"
  <2>1. spec.fields \in [Fields -> Seq(Ranges)] /\ \A f \in Fields : FieldOK(spec.fields[f], f)
    BY <1>2 DEF Specs, Descriptors, Accepts
  <2>2. ASSUME NEW f \in Fields PROVE Field(spec.fields[f], f) \subseteq All(f)
    <3>1. \A j \in DOMAIN spec.fields[f] : spec.fields[f][j] \in Ranges
      BY <2>1
    <3> QED
      BY <2>1, <3>1, FieldWithinBounds
  <2>3. Starred(spec.fields[Day]) \/ Starred(spec.fields[Dow]) \in BOOLEAN
    BY DEF Starred
  <2>4. Parse(spec) = [field |-> [f \in Fields |-> Field(spec.fields[f], f)],
                       star  |-> Starred(spec.fields[Day]) \/ Starred(spec.fields[Dow])]
    BY <1>2 DEF Parse, Descriptors
  <2> QED
    BY <1>1, <2>2, <2>3, <2>4 DEF Schedules
<1>3. CASE spec.kind = "date"
  <2>1. \A f \in Fields : f # Dow => spec.at[f] \in All(f)
    BY <1>3 DEF Specs, Descriptors, Fields
  <2>2. Parse(spec) = DateSchedule(spec.at)
    BY <1>3 DEF Parse, Descriptors
  <2> QED
    BY <1>1, <2>1, <2>2 DEF DateSchedule, Schedules
<1>4. CASE spec.kind \in Descriptors
  <2>1. Parse(spec) = Descriptor(spec.kind)
    BY <1>4 DEF Parse, Descriptors
  <2> QED
    BY <1>1, <2>1 DEF Descriptor, Schedules
<1> QED
  BY <1>2, <1>3, <1>4 DEF Specs, Accepts

-------------------------------------------------------------------------------
\* The type of the call.

LEMMA TypeInit == Init => TypeOK
<1> SUFFICES ASSUME Init PROVE TypeOK
  OBVIOUS
<1>1. 0 \in Time /\ now \in Time
  BY CalendarAssumption, HorizonAssumption DEF Init, Time
<1>2. NoSchedule \in Schedules /\ \A f \in Fields : NoSchedule.field[f] \subseteq All(f)
  BY DEF NoSchedule, Schedules
<1>3. k \in 1 .. Len(dates) + 1
  BY DatesAssumption DEF Init
<1>4. loop \in Units
  BY DEF Init, SearchInit, Units
<1>5. SearchTypeOK
  BY <1>1, <1>2, <1>4 DEF Init, SearchInit, SearchTypeOK
<1>6. \A f \in Fields : sched.field[f] \subseteq All(f)
  BY <1>2 DEF Init, SearchInit
<1> QED
  BY <1>1, <1>3, <1>5, <1>6 DEF Init, TypeOK

LEMMA TryTypes ==
    ASSUME TypeOK, IInv, TryDate
    PROVE  TypeOK'
<1>1. /\ k \in DOMAIN dates /\ dates[k] \in Specs /\ now \in Froms /\ now \in Time
      /\ UNCHANGED <<dates, k, now, off>>
  BY DatesAssumption DEF TryDate, IInv, TypeOK
<1>2. CASE dates[k].kind = "every"
  <2>1. Delay(dates[k].delay, now)
    BY <1>2 DEF TryDate
  <2>2. t' \in Time
    <3>1. now + 1 \in Time /\ now + dates[k].delay \in Time
      BY <1>1, <1>2, DatesAssumption, HorizonAssumption DEF TypeOK
    <3> QED
      BY <2>1, <3>1 DEF Delay
  <2> QED
    BY <1>1, <2>1, <2>2 DEF Delay, TypeOK, SearchTypeOK
<1>3. CASE dates[k].kind # "every"
  <2>1. Begin(Parse(dates[k]), now) /\ Accepts(dates[k])
    BY <1>3 DEF TryDate
  <2>2. sched' \in Schedules /\ \A f \in Fields : sched'.field[f] \subseteq All(f)
    BY <1>1, <1>3, <2>1, ParsedTypes DEF Begin
  <2>3. limit' \in Nat /\ t' \in Time
    BY <1>1, <2>1, FromType DEF Begin
  <2>4. loop' \in Units
    BY <2>1 DEF Begin, Units
  <2>5. SearchTypeOK'
    BY <1>1, <2>1, <2>2, <2>3, <2>4 DEF Begin, SearchTypeOK
  <2> QED
    BY <1>1, <2>2, <2>5 DEF TypeOK
<1> QED
  BY <1>2, <1>3

LEMMA TypeStep == TypeOK /\ IInv /\ IInv' /\ [Next]_vars => TypeOK'
<1> SUFFICES ASSUME TypeOK, IInv, IInv', [Next]_vars PROVE TypeOK'
  OBVIOUS
<1>1. CASE Search /\ UNCHANGED <<dates, k, now, off>>
  <2>0. loop \in Units /\ added \in BOOLEAN
    BY DEF TypeOK, SearchTypeOK
  <2>1. /\ pc' \in {"search", "found", "none"} /\ UNCHANGED <<sched, from, limit>>
        /\ loop' \in Units /\ added' \in BOOLEAN
    <3>1. CASE Wrap
      BY <2>0, <3>1 DEF Wrap, Units
    <3>2. CASE Keep
      BY <2>0, <3>2 DEF Keep, Units
    <3>3. CASE Skip
      BY <2>0, <3>3 DEF Skip, Units
    <3> QED
      BY <1>1, <3>1, <3>2, <3>3 DEF Search
  <2>2. t' \in Time
    BY <2>1 DEF IInv
  <2> QED
    BY <1>1, <2>1, <2>2 DEF TypeOK, SearchTypeOK
<1>2. CASE PassOver \/ Compare
  <2>1. k \in DOMAIN dates /\ dates \in DateLists
    BY <1>2, DatesAssumption DEF PassOver, Compare, IInv
  <2>2. k' \in 1 .. Len(dates) + 1
    BY <1>2, <2>1, DatesAssumption DEF PassOver, Compare, TypeOK
  <2> QED
    BY <1>2, <2>2 DEF PassOver, Compare, TypeOK, SearchTypeOK, searchVars
<1>3. CASE NoDate \/ UNCHANGED vars
  BY <1>3 DEF NoDate, vars, searchVars, TypeOK, SearchTypeOK
<1> QED
  BY <1>1, <1>2, <1>3, TryTypes DEF Next

\* What is asked of the calendar is within it, and every schedule in use has
\* values its fields can take, for every list of specifications.
THEOREM TypeCorrect == Spec => []TypeOK
  BY TypeInit, TypeStep, Invariant, PTL DEF Spec

-------------------------------------------------------------------------------
\* Why the answer "yes" is right.

OInv ==
    /\ pc \in {"search", "found", "none"} => Accepts(dates[k])
    /\ pc = "found" => Value[Year][t] <= limit
    /\ off = "yes" => pc \in {"found", "none", "delayed"}
    /\ OffOnlyInNamedHour

\* Nothing else is said while the answer is open.
LEMMA StillOpen ==
    ASSUME off' # "yes"
    PROVE  OffOnlyInNamedHour'
  BY DEF OffOnlyInNamedHour

LEMMA OffStays ==
    ASSUME OffOnlyInNamedHour, UNCHANGED <<off, pc, dates, now>>
    PROVE  OffOnlyInNamedHour'
  BY DEF OffOnlyInNamedHour, Dated, Activates, Matches, DayMatches

\* The date that prints as the present does.
LEMMA CompareAnswers ==
    ASSUME IInv, OInv, Compare, off' = "yes"
    PROVE  OffOnlyInNamedHour'
<1> SUFFICES ASSUME pc # "delayed" PROVE OffOnlyInNamedHour'
  BY DEF Compare, OffOnlyInNamedHour
<1> DEFINE s == Parse(dates[k])
           ahead == {x \in now + 1 .. Horizon :
                       /\ Value[Year][x] <= Value[Year][now + 1] + YearSpan
                       /\ Activates(s, x)}
<1>1. /\ UNCHANGED <<dates, now, pc, t>> /\ k \in DOMAIN dates /\ Accepts(dates[k])
      /\ dates[k].kind # "every" /\ now \in Froms
      /\ sched = s /\ from = now /\ limit = Value[Year][now + 1] + YearSpan /\ t \in Time
      /\ pc \in {"found", "none"}
      /\ Format(now) = (IF pc = "none" THEN FormatOfZero ELSE Format(t))
  BY DEF Compare, IInv, OInv
<1>2. s \in Dated
  BY <1>1 DEF Dated
<1>3. IF ahead = {}
      THEN \A u \in {Month, Hour} : Value[u][now] = Low[u]
      ELSE \E x \in ahead : \A u \in {Month, Hour} : Value[u][x] = Value[u][now]
  <2>1. CASE pc = "none"
    <3>1. ahead = {}
      BY <1>1, <2>1 DEF IInv, FindsNext
    <3> QED
      BY <1>1, <2>1, <3>1 DEF Format, FormatOfZero
  <2>2. CASE pc = "found"
    <3>1. t \in now + 1 .. Horizon
      BY <1>1, <2>2, FromType DEF IInv, FindsNext, Time
    <3>2. Activates(s, t) /\ Value[Year][t] <= Value[Year][now + 1] + YearSpan
      BY <1>1, <2>2 DEF IInv, FindsNext, OInv
    <3>3. t \in ahead
      BY <3>1, <3>2
    <3> QED
      BY <1>1, <2>2, <3>3 DEF Format
  <2> QED
    BY <1>1, <2>1, <2>2
<1>4. Dated' = Dated /\ now' = now /\ \A r, x : Activates(r, x)' = Activates(r, x)
  BY <1>1 DEF Dated, Activates, Matches, DayMatches
<1> QED
  BY <1>2, <1>3, <1>4 DEF OffOnlyInNamedHour

LEMMA OffStep == IInv /\ OInv /\ [Next]_vars => OInv'
<1> SUFFICES ASSUME IInv, OInv, [Next]_vars PROVE OInv'
  OBVIOUS
<1>1. CASE TryDate
  BY <1>1, StillOpen DEF TryDate, Delay, Begin, OInv
<1>2. CASE Search /\ UNCHANGED <<dates, k, now, off>>
  <2>1. pc = "search" /\ pc' \in {"search", "found", "none"} /\ off' # "yes"
    BY <1>2 DEF Search, Wrap, Keep, Skip, OInv
  <2>2. pc' = "found" => Value[Year][t'] <= limit'
    BY <1>2, <2>1 DEF Search, Wrap, Keep, Skip, IInv, SInv
  <2> QED
    BY <1>2, <2>1, <2>2, StillOpen DEF OInv
<1>3. CASE PassOver \/ NoDate
  BY <1>3, StillOpen DEF PassOver, NoDate, OInv, searchVars
<1>4. CASE Compare
  <2>1. CASE off' = "yes"
    BY <1>4, <2>1, CompareAnswers DEF Compare, OInv
  <2>2. CASE off' # "yes"
    BY <1>4, <2>2, StillOpen DEF Compare, OInv
  <2> QED
    BY <2>1, <2>2
<1>5. CASE UNCHANGED vars
  BY <1>5, OffStays DEF vars, searchVars, OInv
<1> QED
  BY <1>1, <1>2, <1>3, <1>4, <1>5 DEF Next

\* A job is held off only in a month and an hour a date is activated in, or in
\* hour zero of January by a date that never comes (cronjob.go:307-325).
THEOREM OffIsNamed == Spec => []OffOnlyInNamedHour
<1>1. Init => OInv
  BY DEF Init, SearchInit, OInv, OffOnlyInNamedHour
<1>2. OInv => OffOnlyInNamedHour
  BY DEF OInv
<1> QED
  BY <1>1, <1>2, OffStep, Invariant, PTL DEF Spec
===============================================================================
