------------------------------ MODULE JobLife ------------------------------
(***************************************************************************)
(* What the queue of the home computer promises about its jobs: a job is   *)
(* concluded once, and its result takes effect at most once, at the moment *)
(* it is concluded as done.  Who runs it, how often, and what is lost on   *)
(* the way does not show.                                                  *)
(***************************************************************************)
EXTENDS Naturals

CONSTANT Jobs

VARIABLES
  stage,   \* [Jobs -> "none", "pending", "done", "dropped", "removed"]
  effects  \* [Jobs -> Nat]: how often the result of the job took effect

Init ==
  /\ stage = [j \in Jobs |-> "none"]
  /\ effects = [j \in Jobs |-> 0]

Queue(j) ==
  /\ stage[j] = "none"
  /\ stage' = [stage EXCEPT ![j] = "pending"]
  /\ UNCHANGED effects

Complete(j) ==
  /\ stage[j] = "pending"
  /\ stage' = [stage EXCEPT ![j] = "done"]
  /\ effects' = [effects EXCEPT ![j] = 1]

\* Several jobs may be given up at once.
Drop(S) ==
  /\ \A j \in S : stage[j] = "pending"
  /\ stage' = [j \in Jobs |-> IF j \in S THEN "dropped" ELSE stage[j]]
  /\ UNCHANGED effects

Remove(j) ==
  /\ stage[j] # "none"
  /\ stage' = [stage EXCEPT ![j] = "removed"]
  /\ UNCHANGED effects

Next ==
  \/ \E j \in Jobs : Queue(j) \/ Complete(j) \/ Remove(j)
  \/ \E S \in SUBSET Jobs : Drop(S)

Spec == Init /\ [][Next]_<<stage, effects>>
=============================================================================
