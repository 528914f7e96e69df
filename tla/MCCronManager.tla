---------------------------- MODULE MCCronManager ----------------------------
(***************************************************************************)
(* Instances of CronManager for TLC: one job of h1, for steps on different *)
(* identifiers never meet, with three plans, of which one does not parse;  *)
(* h2 is a CronHPA without jobs that comes back after deletions.           *)
(***************************************************************************)
EXTENDS CronManager, TLC

CONSTANTS i1, h1, h2

MCOwner == (i1 :> h1)

MCWorks == [plan : {"daily", "hourly", "nonsense"}]

MCParses == {w \in MCWorks : w.plan # "nonsense"}

MCCompared == [w \in MCWorks |-> w.plan]
===============================================================================
