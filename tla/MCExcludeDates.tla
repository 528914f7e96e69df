---------------------------- MODULE MCExcludeDates ----------------------------
(***************************************************************************)
(* A small calendar: a day has two hours of two minutes of two seconds, a  *)
(* year two months of two and three days, the first of them with a third   *)
(* day in leap years (1 and 3); weeks have three days.                     *)
(***************************************************************************)
EXTENDS ExcludeDates

MCMonths(y) ==
    (IF y % 2 = 1 THEN <<<<y, 1, 1>>, <<y, 1, 2>>, <<y, 1, 3>>>>
                  ELSE <<<<y, 1, 1>>, <<y, 1, 2>>>>)
        \o <<<<y, 2, 1>>, <<y, 2, 2>>, <<y, 2, 3>>>>

MCDays == MCMonths(0) \o MCMonths(1) \o MCMonths(2) \o MCMonths(3) \o MCMonths(4) \o MCMonths(5)

MCHorizon == 8 * Len(MCDays) - 1

\* A second as a tuple of the numbers of its units, from the year on.
MCDate == [x \in 0 .. MCHorizon |->
    MCDays[x \div 8 + 1] \o <<(x \div 4) % 2, (x \div 2) % 2, x % 2>>]

Same(u, x, y) == \A i \in 1 .. u + 1 : MCDate[x][i] = MCDate[y][i]

MCStart == [u \in 0 .. 5 |-> [x \in 0 .. MCHorizon |->
    CHOOSE y \in 0 .. x : Same(u, x, y) /\ (y = 0 \/ ~Same(u, x, y - 1))]]

MCEnd == [u \in 0 .. 5 |-> [x \in 0 .. MCHorizon |->
    CHOOSE y \in x + 1 .. MCHorizon + 1 :
        Same(u, x, y - 1) /\ (y = MCHorizon + 1 \/ ~Same(u, x, y))]]

MCValue == [u \in 0 .. 6 |-> [x \in 0 .. MCHorizon |->
    IF u = 6 THEN (x \div 8) % 3 ELSE MCDate[x][u + 1]]]

MCLow  == <<1, 1, 0, 0, 0, 0>>
MCHigh == <<2, 3, 1, 1, 1, 2>>

\* The first year and the leap year that follows it.
MCFroms == {x \in 0 .. MCHorizon : MCValue[0][x] <= 1}

-------------------------------------------------------------------------------
N == Omitted
Star  == <<[star |-> TRUE, low |-> 0, high |-> N, step |-> N]>>
One(n) == <<[star |-> FALSE, low |-> n, high |-> N, step |-> N]>>
To(n, m) == <<[star |-> FALSE, low |-> n, high |-> m, step |-> N]>>
By(n, s) == <<[star |-> FALSE, low |-> n, high |-> N, step |-> s]>>

Spec6(month, day, hour, minute, second, dow) ==
    [kind |-> "fields", fields |-> <<month, day, hour, minute, second, dow>>]

\* Months and days of every kind, with a last day that short months lack, an
\* empty list, steps, and stars on either side of the two fields for the day.
MCSpecs ==
    {Spec6(mo, d, h, mi, s, w) :
        mo \in {Star, One(1), One(2)}, d \in {Star, One(1), One(3), By(2, 1)},
        h \in {Star, One(0), One(1)}, mi \in {Star, One(1)}, s \in {Star, One(1)},
        w \in {Star, One(2)}}
    \cup {Spec6(Star, <<>>, One(1), By(0, 2), Star, <<>>),
          Spec6(One(2), To(1, 2) \o One(3), One(0), One(0), One(0), To(0, 1))}

Refused == {Spec6(One(3), Star, Star, Star, Star, Star),
            Spec6(Star, To(3, 2), Star, Star, Star, Star),
            Spec6(Star, Star, By(0, 0), Star, Star, Star),
            [kind |-> "unreadable"]}

Others ==
    {[kind |-> d] : d \in {"hourly", "daily", "weekly", "monthly", "yearly"}}
    \cup {[kind |-> "every", delay |-> n] : n \in {0, 4}}
    \cup {[kind |-> "date", at |-> <<2, 1, 1, 0, 1>>]}

NovFifteenth == Spec6(One(2), One(2), Star, Star, Star, Star)

MCDateLists ==
    {<<s>> : s \in MCSpecs \cup Others}
    \cup {<<r, s>> : r \in Refused, s \in {NovFifteenth}}
    \cup {<<s, NovFifteenth>> : s \in Others}
    \cup {<<NovFifteenth, r>> : r \in Refused}
    \cup {<<>>}

FewDateLists == {<<NovFifteenth>>}
===============================================================================
