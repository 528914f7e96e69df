------------------------------- MODULE JobTable -------------------------------
(***************************************************************************)
(* What a cron engine promises its clients, without channels, timers or a  *)
(* sorted slice: a table from job identifiers to jobs that changes only by *)
(* scheduling and unscheduling, and launches that involve jobs of the      *)
(* table only and never repeat an activation.                              *)
(*                                                                         *)
(* CronEngine (the go-cron loop) implements this module; CronManager and   *)
(* CronHPA use its two table operations for AddJob and RemoveJob.          *)
(***************************************************************************)
EXTENDS Naturals

CONSTANTS Ids,      \* job identifiers (uuids)
          Jobs      \* jobs: records with at least a field id

VARIABLES table,    \* a function from the scheduled identifiers to their jobs
          launched  \* launched[i]: the last activation time launched for i

tableVars == <<table, launched>>

TableTypeOK ==
    /\ DOMAIN table \subseteq Ids
    /\ table \in [DOMAIN table -> Jobs]
    /\ launched \in [Ids -> Nat]

TableInit ==
    /\ table = [i \in {} |-> {}]
    /\ launched = [i \in Ids |-> 0]

\* The table after job j is scheduled (a job with the same id is replaced).
Scheduled(tab, j) ==
    [i \in DOMAIN tab \cup {j.id} |-> IF i = j.id THEN j ELSE tab[i]]

\* The table after the job with identifier id is unscheduled, if it was there.
Unscheduled(tab, id) ==
    [i \in DOMAIN tab \ {id} |-> tab[i]]

Schedule(j) ==
    /\ table' = Scheduled(table, j)
    /\ UNCHANGED launched

Unschedule(id) ==
    /\ table' = Unscheduled(table, id)
    /\ UNCHANGED launched

\* A set of scheduled jobs is launched, each for a later activation than before.
Launch ==
    /\ launched' \in [Ids -> Nat]
    /\ \A i \in Ids :
          launched'[i] # launched[i] => i \in DOMAIN table /\ launched'[i] > launched[i]
    /\ UNCHANGED table

TableNext ==
    \/ \E j \in Jobs : Schedule(j)
    \/ \E id \in Ids : Unschedule(id)
    \/ Launch

TableSpec == TableInit /\ [][TableNext]_tableVars
===============================================================================
