------------------------ MODULE MCExecutionLifecycle ------------------------
(***************************************************************************)
(* Instances of ExecutionLifecycle for TLC: webhook executions compete for *)
(* the production limit; what else happens to them is set by each cfg.     *)
(***************************************************************************)
EXTENDS ExecutionLifecycle

CONSTANTS w1, w2

MCmode == [e \in Executions |-> "webhook"]

\* One production execution at a time, evaluation unlimited.
MClimitOne == [t \in {"production", "evaluation"} |->
                  IF t = "production" THEN 1 ELSE -1]

MClimitTwo == [t \in {"production", "evaluation"} |->
                  IF t = "production" THEN 2 ELSE -1]

=============================================================================
