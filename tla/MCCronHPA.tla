------------------------------- MODULE MCCronHPA -------------------------------
(***************************************************************************)
(* Instances of CronHPA for TLC.  Each run has its own lists of jobs and   *)
(* its own budget.  TLC reports it when a run needs more identifiers.      *)
(***************************************************************************)
EXTENDS CronHPA, TLC

JobSpec(name, plan, size, once) == [name |-> name, plan |-> plan, size |-> size, once |-> once]

Up     == JobSpec("up", "daily", 5, FALSE)
UpMore == JobSpec("up", "daily", 9, FALSE)
UpHour == JobSpec("up", "hourly", 5, FALSE)
UpBad  == JobSpec("up", "nonsense", 5, FALSE)
Down   == JobSpec("down", "daily", 1, FALSE)
Once   == JobSpec("once", "date", 5, TRUE)

MCJobSpecs == {Up, UpMore, UpHour, UpBad, Down, Once}

\* One job, several jobs, two of one name.
OneJob    == {{Up}, {UpMore}, {}}
TwoJobs   == {{Up, Down}, {UpMore}}
CalmJobs  == {{Up}, {UpMore}, {Once, Up}, {UpBad}}
SameNames == {{Up, UpHour}, {UpMore}}

\* Two targets, one of them with exclude dates too, and one the factory rejects.
MCRefOf == ("web" :> "web") @@ ("web but fridays" :> "web") @@ ("api" :> "api") @@ ("nameless" :> "")

Nothing == [b \in {"edits", "deletions", "fires", "errors", "patches",
                    "crashes", "resyncs", "ticks"} |-> 0]

RaceBudget    == [Nothing EXCEPT !["edits"] = 2, !["fires"] = 2, !["crashes"] = 1]
CollectBudget == [Nothing EXCEPT !["deletions"] = 1, !["errors"] = 1, !["ticks"] = 1]
CalmBudget    == [Nothing EXCEPT !["edits"] = 1, !["fires"] = 2, !["deletions"] = 1,
                                 !["crashes"] = 1, !["resyncs"] = 1]
LiveBudget    == [Nothing EXCEPT !["edits"] = 1, !["fires"] = 1, !["patches"] = 1,
                                 !["crashes"] = 1]
EditBudget    == [Nothing EXCEPT !["edits"] = 1]
===============================================================================
