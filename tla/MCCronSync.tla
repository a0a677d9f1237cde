----------------------------- MODULE MCCronSync -----------------------------
(* Small instances of CronSync. *)
EXTENDS CronSync, TLC

CONSTANTS a1, a2

\* An account each for two intervals, or two accounts of one interval.
OneEach == (a1 :> 1) @@ (a2 :> 2)
Shared  == [a \in Accounts |-> 1]
=============================================================================
