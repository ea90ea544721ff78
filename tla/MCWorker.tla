------------------------------ MODULE MCWorker ------------------------------
(* Small instances of Worker for TLC: two workers with one job, whose      *)
(* callbacks return no errors, and one worker with two jobs.               *)
EXTENDS Worker

CONSTANTS w1, w2

VARIABLE crew   \* the workers that run, the same in all of a behaviour

MCInit == WorkInit /\ crew \in {Workers, {w1}}

MCNext ==
  /\ WorkNext
  /\ open' \subseteq crew
  /\ crew = Workers => born' \subseteq {1} /\ \A w \in Workers : cb'[w] # "err"
  /\ UNCHANGED crew

MCSpec ==
  /\ MCInit /\ [][MCNext]_<<workVars, crew>>
  /\ WF_workVars(WorkTick)
  /\ \A w \in Workers : WF_workVars(w \in crew /\ Open(w)) /\ Fairness(w)
=============================================================================
