------------------------------ MODULE MCWatchdog ------------------------------
(***************************************************************************)
(* Instances of Watchdog for TLC: one job, whose plan recurs every two     *)
(* ticks or names a day that never comes.                                  *)
(***************************************************************************)
EXTENDS Watchdog, TLC

CONSTANTS i1, h1

MCOwner == [i \in Ids |-> h1]

MCNextTime ==
    [w \in Works |-> [x \in 0 .. MaxTime |->
        IF w = "often" THEN 2 * (x \div 2) + 2 ELSE Zero]]

MCCompared == [w \in Works |-> w]
===============================================================================
