----------------------------- MODULE MCCronEngine -----------------------------
(***************************************************************************)
(* Instances of CronEngine for TLC: three plans (one that fires every      *)
(* other instant, one that fires every third, one that fires once and is   *)
(* then unsatisfiable) and the casts of clients the runs put on stage.     *)
(***************************************************************************)
EXTENDS CronEngine, TLC

CONSTANTS a, b, c

MCPlans == {"second", "third", "once"}

\* The plans of the runs with three clients.
TwoPlans == {"second", "once"}

MCNextTime ==
    [p \in Plans |-> [t \in 0 .. MaxTime |->
        CASE p = "second" -> 2 * (t \div 2) + 2
          [] p = "third"  -> 3 * (t \div 3) + 3
          [] p = "once"   -> IF t < 2 THEN 2 ELSE 0]]

\* A reconciler that adds and removes, before and after the start, and a second
\* client that lists the entries or stops the engine.
EveryOperation ==
    (a :> {"early", "add", "remove"}) @@ (b :> {"remove", "entries", "stop"})

\* A reconciler that never removes and two listers: two collections, or one and
\* the web page.
TwoListers == (a :> {"add"}) @@ (b :> {"entries"}) @@ (c :> {"entries"})
===============================================================================
