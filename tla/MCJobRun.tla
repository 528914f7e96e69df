------------------------------- MODULE MCJobRun -------------------------------
(***************************************************************************)
(* Instances of JobRun for TLC: two jobs that scale through the HPA and    *)
(* one that scales the HPA's target itself, in any two runs.               *)
(***************************************************************************)
EXTENDS JobRun, TLC

Sizes == ("up" :> 2) @@ ("down" :> 1) @@ ("plain" :> 1)

RunSymmetry == Permutations(Runs)
===============================================================================
